---- MODULE Spec2Model ----
(***************************************************************************)
(* Model of docker_src/file-server.ts: the backup key scheme, the managed  *)
(* root gateway of the /fs handlers, and the background job registries     *)
(* (backup jobs and modpack install jobs).                                  *)
(*                                                                         *)
(* Strings are tuples of one-character strings, so that padStart,          *)
(* startsWith, split and the lexicographic order of keys are computed      *)
(* character by character, as the runtime computes them.                   *)
(***************************************************************************)
EXTENDS Integers, Sequences, FiniteSets, TLC

(***************************************************************************)
(* Strings                                                                 *)
(***************************************************************************)

\* The characters the model uses, in ascending UTF-16 code unit order.
CharOrder ==
    << " ", ",", "-", ".", "/",
       "0", "1", "2", "3", "4", "5", "6", "7", "8", "9", ":",
       "E", "R", "T", "U",
       "_",
       "a", "b", "c", "d", "e", "f", "g", "h", "i", "j", "k", "l", "m",
       "n", "o", "p", "q", "r", "s", "t", "u", "v", "w", "x", "y", "z" >>

CharCode(c) == CHOOSE i \in 1..Len(CharOrder) : CharOrder[i] = c

\* a < b in the order of String.prototype comparison (code unit by code unit,
\* a proper prefix first).
RECURSIVE StrLess(_, _)
StrLess(a, b) ==
    IF b = <<>> THEN FALSE
    ELSE IF a = <<>> THEN TRUE
    ELSE IF Head(a) = Head(b) THEN StrLess(Tail(a), Tail(b))
    ELSE CharCode(Head(a)) < CharCode(Head(b))

StartsWith(s, p) == Len(p) <= Len(s) /\ SubSeq(s, 1, Len(p)) = p

EndsWith(s, p) == Len(p) <= Len(s) /\ SubSeq(s, Len(s) - Len(p) + 1, Len(s)) = p

\* s.includes(p)
Includes(s, p) ==
    \E i \in 0..(Len(s) - Len(p)) : SubSeq(s, i + 1, i + Len(p)) = p

\* String.prototype.padStart(width, fill) for a one-character fill.
RECURSIVE PadStart(_, _, _)
PadStart(s, width, fill) ==
    IF Len(s) >= width THEN s ELSE PadStart(<<fill>> \o s, width, fill)

Digit(n) == CharOrder[CharCode("0") + n]

\* String(n) for an integer n >= 0.
RECURSIVE NatToString(_)
NatToString(n) ==
    IF n < 10 THEN <<Digit(n)>> ELSE NatToString(n \div 10) \o <<Digit(n % 10)>>

\* String.prototype.toLowerCase()
ToLowerCase(s) ==
    [i \in 1..Len(s) |->
        CASE s[i] = "E" -> "e" [] s[i] = "R" -> "r" [] s[i] = "T" -> "t"
          [] s[i] = "U" -> "u" [] OTHER -> s[i]]

\* String.prototype.trim(), the only white space of the model being " ".
RECURSIVE TrimStart(_)
TrimStart(s) == IF s # <<>> /\ Head(s) = " " THEN TrimStart(Tail(s)) ELSE s

RECURSIVE TrimEnd(_)
TrimEnd(s) ==
    IF s # <<>> /\ s[Len(s)] = " " THEN TrimEnd(SubSeq(s, 1, Len(s) - 1)) ELSE s

Trim(s) == TrimEnd(TrimStart(s))

\* String.prototype.split(sep) for a one-character separator: the pieces
\* between separators, empty pieces included.
RECURSIVE SplitFrom(_, _, _, _)
SplitFrom(s, sep, acc, cur) ==
    IF s = <<>> THEN Append(acc, cur)
    ELSE IF Head(s) = sep THEN SplitFrom(Tail(s), sep, Append(acc, cur), <<>>)
    ELSE SplitFrom(Tail(s), sep, acc, Append(cur, Head(s)))

Split(s, sep) == SplitFrom(s, sep, <<>>, <<>>)

\* Array.prototype.join(sep)
RECURSIVE Join(_, _)
Join(parts, sep) ==
    IF parts = <<>> THEN <<>>
    ELSE IF Len(parts) = 1 THEN parts[1]
    ELSE parts[1] \o sep \o Join(Tail(parts), sep)

\* Array.prototype.filter(Boolean) on an array of strings: drops the empty ones.
RECURSIVE FilterNonEmpty(_)
FilterNonEmpty(parts) ==
    IF parts = <<>> THEN <<>>
    ELSE IF Head(parts) = <<>> THEN FilterNonEmpty(Tail(parts))
    ELSE <<Head(parts)>> \o FilterNonEmpty(Tail(parts))

(***************************************************************************)
(* Time.  Epoch seconds exceed 32 bits (MAX_EPOCH_SECONDS = 4891363200),   *)
(* so a count of seconds is a pair <<hi, lo>> standing for                 *)
(* hi * 100000 + lo with 0 <= lo < 100000.  A Date is its epoch seconds    *)
(* and the milliseconds within the second: getTime() = sec * 1000 + ms.    *)
(***************************************************************************)

WideLess(a, b) == a[1] < b[1] \/ (a[1] = b[1] /\ a[2] < b[2])

\* a - b for a >= b
WideSub(a, b) ==
    IF a[2] >= b[2] THEN <<a[1] - b[1], a[2] - b[2]>>
    ELSE <<a[1] - b[1] - 1, a[2] + 100000 - b[2]>>

\* String(n) for a wide n >= 0
WideToString(w) ==
    IF w[1] = 0 THEN NatToString(w[2])
    ELSE NatToString(w[1]) \o PadStart(NatToString(w[2]), 5, "0")

\* floor(w / 3600): the whole hours of a count of seconds
WideHours(w) ==
    (w[1] \div 3600) * 100000 + (((w[1] % 3600) * 100000 + w[2]) \div 3600)

\* Math.floor(at.getTime() / 1000)
EpochSeconds(at) == at.sec

\* at1.getTime() < at2.getTime()
DateLess(at1, at2) ==
    WideLess(at1.sec, at2.sec) \/ (at1.sec = at2.sec /\ at1.ms < at2.ms)

\* The UTC calendar fields of a Date (getUTCFullYear, getUTCMonth() + 1,
\* getUTCDate, getUTCHours): the proleptic Gregorian date of the day number.
UTCFields(at) ==
    LET hours == WideHours(at.sec)
        z     == (hours \div 24) + 719468
        era   == z \div 146097
        doe   == z % 146097
        yoe   == (doe - (doe \div 1460) + (doe \div 36524) - (doe \div 146096)) \div 365
        doy   == doe - (365 * yoe + (yoe \div 4) - (yoe \div 100))
        mp    == (5 * doy + 2) \div 153
        day   == doy - ((153 * mp + 2) \div 5) + 1
        month == IF mp < 10 THEN mp + 3 ELSE mp - 9
        year  == yoe + era * 400 + (IF month <= 2 THEN 1 ELSE 0)
    IN  [year |-> year, month |-> month, date |-> day, hours |-> hours % 24]

(***************************************************************************)
(* Key scheme                                                              *)
(***************************************************************************)

\* Math.floor(new Date('2125-01-01T00:00:00Z').getTime() / 1000) = 4891363200
MAX_EPOCH_SECONDS == <<48913, 63200>>

REV_SECONDS_WIDTH == Len(WideToString(MAX_EPOCH_SECONDS))

formatUTCDateYYYYMMDDHH(d) ==
    LET f    == UTCFields(d)
        yyyy == NatToString(f.year)
        MM   == PadStart(NatToString(f.month), 2, "0")
        dd   == PadStart(NatToString(f.date), 2, "0")
        HH   == PadStart(NatToString(f.hours), 2, "0")
    IN  yyyy \o MM \o dd \o HH

\* A bug the ordering must exclude: the reverse epoch written without padding.
ReversePartUnpadded(reverseEpochSeconds) == WideToString(reverseEpochSeconds)

\* String(reverseEpochSeconds).padStart(REV_SECONDS_WIDTH, '0')
ReversePart(reverseEpochSeconds) ==
    PadStart(WideToString(reverseEpochSeconds), REV_SECONDS_WIDTH, "0")

generateBackupKey(dirName, at) ==
    LET nowSeconds          == EpochSeconds(at)
        reverseEpochSeconds == WideSub(MAX_EPOCH_SECONDS, nowSeconds)
        reversePart         == ReversePart(reverseEpochSeconds)
        datePart            == formatUTCDateYYYYMMDDHH(at)
    IN  <<"b", "a", "c", "k", "u", "p", "s", "/">> \o reversePart \o <<"_">>
            \o datePart \o <<"_">> \o dirName \o <<".", "t", "a", "r", ".", "g", "z">>


(***************************************************************************)
(* State                                                                   *)
(***************************************************************************)

\* undefined / null where a string is expected (no string of the model, whose
\* strings are tuples of single characters)
NULL == <<"null">>

\* undefined / null where an object is expected
NONE == [none |-> TRUE]

VARIABLES
    env,            \* process.env, fixed for the lifetime of the process
    keyIn,          \* key scheme: the directory name and the two Dates given
    keyOut,         \* key scheme: the two keys generated, <<>> before
    managedRoots,   \* FileServer.managedRoots
    fsRequest,      \* the path of the filesystem request being handled
    fsReply,        \* the reply of the last filesystem request
    fsAccess,       \* the filesystem entries the last request read or changed
    backupJobs,     \* FileServer.backupJobs: id -> job record
    backupTasks,    \* id -> the position and locals of its executeBackupJob run
    backupLog,      \* history: id -> the values assigned to job.status, in order
    backupRuns,     \* history: id -> the number of executeBackupJob calls
    backupCount,    \* FileServer.backupCount
    modpackJobs,    \* FileServer.modpackJobs: id -> job record
    modpackTasks,   \* id -> the position, locals and settled awaits of its process...Job run
    modpackLog,     \* history: id -> the values assigned to job.status, in order
    tmpFiles,       \* the paths that exist under /tmp
    unlinked,       \* history: the paths unlink() or removePath() was called on
    response,       \* the response of the last step, when it was a request
    restores,       \* restore request -> the position and locals of its handleRestore run
    activeRestores, \* FileServer.activeRestores
    restoreCount,   \* FileServer.restoreCount
    dl,             \* downloadLargeFile: its arguments, position and outcome
    dlParts,        \* part number -> the position and locals of its downloadPart run
    dlFiles,        \* part number -> the content of its part file, NONE when absent
    dlTarget,       \* the data written to the destination file, in order
    dlFaults,       \* the number of failures the network and the disk have produced
    dlStarted,      \* history: the part numbers in the order their downloads started
    manifest,       \* the provider and the file entries of the manifest being installed
    fileLoop,       \* install...Files: the position and locals of its run
    dataWrites,     \* history: the destinations the file loop has written
    filesWritten,   \* history: the indices of the entries written, in order
    bucket          \* the objects of the data bucket a list request finds, in listing order

keyVars == <<keyIn, keyOut>>
fsVars  == <<managedRoots, fsRequest, fsReply, fsAccess>>
jobVars == <<backupJobs, backupTasks, backupLog, backupRuns, backupCount,
             modpackJobs, modpackTasks, modpackLog, tmpFiles, unlinked, response>>
restoreVars  == <<restores, activeRestores, restoreCount>>
downloadVars == <<dl, dlParts, dlFiles, dlTarget, dlFaults, dlStarted>>
fileVars     == <<manifest, fileLoop, dataWrites, filesWritten>>
listVars     == <<bucket>>
transferVars == <<restoreVars, downloadVars, fileVars, listVars>>
vars    == <<env, keyVars, fsVars, jobVars, transferVars>>

\* The empty Map
EmptyMap == <<>>

NoResponse == [kind |-> "none"]

KeyIdle == keyIn = NONE /\ keyOut = <<>>
FsIdle  ==
    /\ managedRoots = <<>> /\ fsRequest = NULL
    /\ fsReply = NoResponse /\ fsAccess = {}
JobsIdle ==
    /\ backupJobs = EmptyMap /\ backupTasks = EmptyMap /\ backupLog = EmptyMap
    /\ backupRuns = EmptyMap /\ backupCount = 0
    /\ modpackJobs = EmptyMap /\ modpackTasks = EmptyMap /\ modpackLog = EmptyMap
    /\ tmpFiles = {} /\ unlinked = {} /\ response = NoResponse

RestoresIdle == restores = EmptyMap /\ activeRestores = 0 /\ restoreCount = 0
DownloadIdle ==
    /\ dl = NONE /\ dlParts = <<>> /\ dlFiles = <<>> /\ dlTarget = <<>>
    /\ dlFaults = 0 /\ dlStarted = <<>>
FilesIdle ==
    manifest = NONE /\ fileLoop = NONE /\ dataWrites = {} /\ filesWritten = <<>>
ListIdle  == bucket = <<>>
TransferIdle == RestoresIdle /\ DownloadIdle /\ FilesIdle /\ ListIdle

\* process.env values
STR_true  == <<"t", "r", "u", "e">>
STR_TRUE  == <<"T", "R", "U", "E">>
STR_false == <<"f", "a", "l", "s", "e">>
STR_data  == <<"/", "d", "a", "t", "a">>

DefaultEnv ==
    [MAINTENANCE_MODE |-> NULL, FILE_MANAGER_ROOTS |-> NULL,
     AWS_CREDENTIALS |-> TRUE, CURSEFORGE_API_KEY |-> TRUE]

(***************************************************************************)
(* Key scheme: generateBackupKey applied to one directory name and two     *)
(* Dates.                                                                  *)
(***************************************************************************)

\* Epoch seconds of the Dates tried: the epoch, the ends of an hour and of a
\* day, 2023-11-14, a leap day, the two seconds around a reverse epoch of
\* 10^9 (where its decimal width changes), 2100-03-01, and the last seconds
\* up to MAX_EPOCH_SECONDS.
KeySeconds ==
    { <<0, 0>>, <<0, 1>>, <<0, 3599>>, <<0, 86399>>, <<0, 86400>>,
      <<17000, 0>>, <<17091, 64800>>, <<17092, 51199>>,
      <<38913, 63200>>, <<38913, 63201>>, <<41075, 42400>>,
      <<48913, 63199>>, <<48913, 63200>> }

KeyMillis == {0, 999}

KeyDates == [sec : KeySeconds, ms : KeyMillis]

KeyDirNames == { <<"w", "o", "r", "l", "d">>, <<"a", "_", "b">> }

KeyInit ==
    /\ env = DefaultEnv
    /\ keyIn \in [dirName : KeyDirNames, at1 : KeyDates, at2 : KeyDates]
    /\ keyOut = <<>>
    /\ FsIdle
    /\ JobsIdle
    /\ TransferIdle

GenerateKeys ==
    /\ keyOut = <<>>
    /\ keyOut' = << generateBackupKey(keyIn.dirName, keyIn.at1),
                    generateBackupKey(keyIn.dirName, keyIn.at2) >>
    /\ UNCHANGED <<env, transferVars, keyIn, fsVars, jobVars>>

KeyNext == GenerateKeys

KeySpec == KeyInit /\ [][KeyNext]_vars

\* C1 (as stated): for any directory name and any two Dates t1 < t2, the key
\* of t1 is lexicographically strictly greater than the key of t2.
C1_StrictForAnyDates ==
    (keyOut # <<>> /\ DateLess(keyIn.at1, keyIn.at2))
        => StrLess(keyOut[2], keyOut[1])

\* C1 (amended): Dates that lie in different epoch seconds, from the epoch up
\* to MAX_EPOCH_SECONDS, get keys in strictly descending lexicographic order
\* (the earlier Date has the greater key); two Dates within the same second
\* get the same key.
C1_ReverseEpochOrdering ==
    keyOut # <<>> =>
        /\ WideLess(EpochSeconds(keyIn.at1), EpochSeconds(keyIn.at2))
              => StrLess(keyOut[2], keyOut[1])
        /\ EpochSeconds(keyIn.at1) = EpochSeconds(keyIn.at2)
              => keyOut[1] = keyOut[2]

\* C1 witness: keys were generated for two Dates whose reverse epochs have
\* different decimal widths (10^9 and 10^9 - 1), the earlier one first.
C1_Witness ==
    /\ keyOut # <<>>
    /\ keyIn.at1.sec = <<38913, 63200>>
    /\ keyIn.at2.sec = <<38913, 63201>>
    /\ StrLess(keyOut[2], keyOut[1])


(***************************************************************************)
(* node:path (posix)                                                       *)
(***************************************************************************)

\* normalizeString: resolves "." and ".." segments and drops empty ones.
\* segs are the pieces between slashes, res the segments kept so far.
RECURSIVE NormalizeSegments(_, _, _)
NormalizeSegments(segs, res, allowAboveRoot) ==
    IF segs = <<>> THEN res
    ELSE LET seg == Head(segs) IN
         IF seg = <<>> \/ seg = <<".">>
         THEN NormalizeSegments(Tail(segs), res, allowAboveRoot)
         ELSE IF seg = <<".", ".">>
         THEN IF res # <<>> /\ res[Len(res)] # <<".", ".">>
              THEN NormalizeSegments(Tail(segs), SubSeq(res, 1, Len(res) - 1), allowAboveRoot)
              ELSE IF allowAboveRoot
              THEN NormalizeSegments(Tail(segs), Append(res, seg), allowAboveRoot)
              ELSE NormalizeSegments(Tail(segs), res, allowAboveRoot)
         ELSE NormalizeSegments(Tail(segs), Append(res, seg), allowAboveRoot)

IsAbsolute(p) == p # <<>> /\ Head(p) = "/"

\* path.posix.normalize(p)
PosixNormalize(p) ==
    IF p = <<>> THEN <<".">>
    ELSE LET isAbsolute        == IsAbsolute(p)
             trailingSeparator == p[Len(p)] = "/"
             body == Join(NormalizeSegments(Split(p, "/"), <<>>, ~isAbsolute), <<"/">>)
         IN  IF body = <<>>
             THEN IF isAbsolute THEN <<"/">>
                  ELSE IF trailingSeparator THEN <<".", "/">> ELSE <<".">>
             ELSE (IF isAbsolute THEN <<"/">> ELSE <<>>) \o body
                      \o (IF trailingSeparator THEN <<"/">> ELSE <<>>)

\* path.posix.resolve('/', p): p when it is absolute, else p under "/",
\* normalized and without a trailing slash.
PosixResolveFromRoot(p) ==
    LET full == IF IsAbsolute(p) THEN p ELSE <<"/">> \o p
    IN  <<"/">> \o Join(NormalizeSegments(Split(full, "/"), <<>>, FALSE), <<"/">>)

\* path.posix.dirname(p) of an absolute path without a trailing slash
PosixDirname(p) ==
    LET segs == FilterNonEmpty(Split(p, "/"))
    IN  IF Len(segs) <= 1 THEN <<"/">>
        ELSE <<"/">> \o Join(SubSeq(segs, 1, Len(segs) - 1), <<"/">>)

\* s.replace(/\/+$/, '')
RECURSIVE StripTrailingSlashes(_)
StripTrailingSlashes(s) ==
    IF s # <<>> /\ s[Len(s)] = "/" THEN StripTrailingSlashes(SubSeq(s, 1, Len(s) - 1))
    ELSE s

(***************************************************************************)
(* Messages.  A message is a sequence of pieces (the literal parts and the *)
(* interpolated values of a template string), so that a message built      *)
(* around another one contains it without being equal to it.               *)
(***************************************************************************)

MsgPathRequired == <<"Path is required">>
MsgOutsideRoots == <<"Path is outside managed roots">>
MsgMaintenance  ==
    <<"Maintenance mode must be enabled before installing a modpack. Stop the server and enter maintenance mode from the Mineflare dashboard.">>

\* The lower-case words the handlers look for, and the literal pieces that
\* contain them.
PieceWords ==
    { <<"Path is required", "required">>,
      <<"Path is outside managed roots", "outside">>,
      <<MsgMaintenance[1], "maintenance">> }

\* message.includes(word)
MessageIncludes(message, word) ==
    \E i \in 1..Len(message) : <<message[i], word>> \in PieceWords

(***************************************************************************)
(* Managed roots                                                           *)
(***************************************************************************)

RECURSIVE MapRoots(_)
MapRoots(entries) ==
    IF entries = <<>> THEN <<>>
    ELSE LET entry    == Trim(Head(entries))
             prefixed == IF StartsWith(entry, <<"/">>) THEN entry ELSE <<"/">> \o entry
             root     == IF prefixed = <<"/">> THEN <<"/">> ELSE StripTrailingSlashes(prefixed)
         IN  (IF entry = <<>> THEN <<>> ELSE <<root>>) \o MapRoots(Tail(entries))

\* constructor(): this.managedRoots from process.env.FILE_MANAGER_ROOTS
ParseManagedRoots(value) ==
    LET source == IF value = NULL \/ value = <<>> THEN STR_data ELSE value
        roots  == MapRoots(Split(source, ","))
    IN  IF roots = <<>> THEN <<STR_data>> ELSE roots

\* isMaintenanceModeEnabled that never refuses
MaintenanceModeAssumed == TRUE

isMaintenanceModeEnabled ==
    ToLowerCase(IF env.MAINTENANCE_MODE = NULL THEN <<>> ELSE env.MAINTENANCE_MODE)
        = STR_true

\* computeParent(root, absolute)
computeParent(root, absolute) ==
    IF absolute = root THEN NULL
    ELSE LET candidate == PosixDirname(absolute)
         IN  IF Len(candidate) < Len(root) THEN root
             ELSE IF ~StartsWith(candidate, root) THEN root
             ELSE candidate

\* A bug the gateway must exclude: a prefix test without the separator.
RootMatchesNoSeparator(root, absolutePath) ==
    root = <<"/">> \/ absolutePath = root \/ StartsWith(absolutePath, root)

\* root === '/' || absolutePath === root || absolutePath.startsWith(`${root}/`)
RootMatches(root, absolutePath) ==
    root = <<"/">> \/ absolutePath = root \/ StartsWith(absolutePath, root \o <<"/">>)

\* resolveManagedPath(rawPath, {allowRootFallback}): the value returned, or
\* the Error thrown.
resolveManagedPath(rawPath, allowFallback) ==
    LET candidate ==
            IF rawPath # NULL /\ Len(Trim(rawPath)) > 0 THEN Trim(rawPath)
            ELSE IF allowFallback THEN managedRoots[1] ELSE NULL
    IN  IF candidate = NULL \/ candidate = <<>>
        THEN [ok |-> FALSE, error |-> MsgPathRequired]
        ELSE LET normalizedInput ==
                     IF StartsWith(candidate, <<"/">>) THEN candidate
                     ELSE <<"/">> \o candidate
                 absolutePath == PosixResolveFromRoot(PosixNormalize(normalizedInput))
                 matching == { i \in 1..Len(managedRoots) :
                                   RootMatches(managedRoots[i], absolutePath) }
             IN  IF matching = {}
                 THEN [ok |-> FALSE, error |-> MsgOutsideRoots]
                 ELSE LET root == managedRoots[CHOOSE i \in matching :
                                                  \A j \in matching : i <= j]
                      IN  [ok |-> TRUE, absolute |-> absolutePath, root |-> root,
                           parent |-> computeParent(root, absolutePath)]


(***************************************************************************)
(* Filesystem gateway: the /fs handlers and the default GET handler.  The  *)
(* content of the filesystem is not modelled: what a call finds there is   *)
(* an input of the step.  fsAccess holds the entries the request's         *)
(* filesystem calls acted on, each with the absolute path the operating    *)
(* system resolves the argument to.                                        *)
(***************************************************************************)

MaxPathSegments == 3

STR_datax == <<"/", "d", "a", "t", "a", "x">>

FsSegments ==
    { <<>>, <<".">>, <<".", ".">>, <<"d", "a", "t", "a">>,
      <<"d", "a", "t", "a", "x">>, <<"e", "t", "c">> }

\* Request paths: up to MaxPathSegments segments joined by "/" (an empty
\* first segment makes the path absolute), a blank one and a padded one.
RawPaths ==
    { Join(ss, <<"/">>) :
        ss \in UNION { [1..n -> FsSegments] : n \in 1..MaxPathSegments } }
    \cup { <<" ">>, <<" ">> \o STR_data \o <<" ">> }

\* url.searchParams.get('path'): null when the parameter is missing
PathParams == RawPaths \cup {NULL}

\* url.pathname: absolute, its dot segments already removed by the URL parser
UrlPathnames ==
    { p \in RawPaths :
        /\ IsAbsolute(p)
        /\ \A i \in 1..Len(p) : p[i] \notin {".", " "} }

FsEnvs ==
    [MAINTENANCE_MODE : {NULL, STR_TRUE, STR_false},
     FILE_MANAGER_ROOTS :
        { NULL, <<"/">>, <<"d", "a", "t", "a", "/">>,
          <<" ">> \o STR_data \o <<",", "/", "e", "t", "c", "/">> },
     AWS_CREDENTIALS : {TRUE}, CURSEFORGE_API_KEY : {TRUE}]

\* What a filesystem call finds
FsOutcomes == {"file", "directory", "ENOENT", "EACCES", "EIO"}

OsError(code) == <<code>>

\* mkdir(p, {recursive: true}) creates p and its missing ancestors; the
\* filesystem root always exists.
MkdirAccess(p) == IF p = <<"/">> THEN {} ELSE {[op |-> "mkdir", path |-> p]}

FsInit ==
    /\ env \in FsEnvs
    /\ managedRoots = ParseManagedRoots(env.FILE_MANAGER_ROOTS)
    /\ fsRequest \in PathParams
    /\ fsReply = NoResponse
    /\ fsAccess = {}
    /\ KeyIdle
    /\ JobsIdle
    /\ TransferIdle

\* The catch blocks of handleListFiles and handleReadFile
ReadErrorStatus(message) ==
    IF MessageIncludes(message, "outside") THEN 403
    ELSE IF MessageIncludes(message, "required") THEN 400 ELSE 500

\* The catch blocks of handleWriteFile, handleDeletePath, handleCreateDirectory
WriteErrorStatus(message) ==
    IF MessageIncludes(message, "maintenance") THEN 400
    ELSE IF MessageIncludes(message, "outside") THEN 403 ELSE 500

FsReply(handler, raw, fallback, resolved, status, body) ==
    [kind |-> handler, raw |-> raw, allowRootFallback |-> fallback,
     resolved |-> resolved, status |-> status, body |-> body]

handleListFiles(rawPath, found) ==
    LET target == resolveManagedPath(rawPath, TRUE) IN
    /\ IF ~target.ok
       THEN /\ fsAccess' = {}
            /\ fsReply' = FsReply("list", rawPath, TRUE, target,
                                  ReadErrorStatus(target.error), [error |-> target.error])
       ELSE /\ fsAccess' = {[op |-> "readdir", path |-> target.absolute]}
            /\ fsReply' =
                 IF found = "directory"
                 THEN FsReply("list", rawPath, TRUE, target, 200,
                              [root |-> target.root, path |-> target.absolute,
                               parent |-> target.parent])
                 ELSE FsReply("list", rawPath, TRUE, target,
                              ReadErrorStatus(OsError(found)), [error |-> OsError(found)])
    /\ found # "file"
    /\ UNCHANGED <<env, transferVars, managedRoots, fsRequest, keyVars, jobVars>>

handleReadFile(rawPath, found) ==
    LET target == resolveManagedPath(rawPath, FALSE) IN
    /\ IF ~target.ok
       THEN /\ fsAccess' = {}
            /\ fsReply' = FsReply("read", rawPath, FALSE, target,
                                  ReadErrorStatus(target.error), [error |-> target.error])
       ELSE IF found = "ENOENT"
       THEN /\ fsAccess' = {[op |-> "stat", path |-> target.absolute]}
            /\ fsReply' = FsReply("read", rawPath, FALSE, target, 404, [text |-> "File not found"])
       ELSE IF found = "file"
       THEN /\ fsAccess' = {[op |-> "stat", path |-> target.absolute],
                            [op |-> "read", path |-> target.absolute]}
            /\ fsReply' = FsReply("read", rawPath, FALSE, target, 200, [content |-> target.absolute])
       ELSE /\ fsAccess' = {[op |-> "stat", path |-> target.absolute]}
                              \cup (IF found = "directory"
                                    THEN {[op |-> "read", path |-> target.absolute]}
                                    ELSE {})
            /\ fsReply' = FsReply("read", rawPath, FALSE, target,
                                  ReadErrorStatus(OsError(found)), [error |-> OsError(found)])
    /\ UNCHANGED <<env, transferVars, managedRoots, fsRequest, keyVars, jobVars>>

handleWriteFile(rawPath, found) ==
    /\ found \in {"file", "EACCES", "EIO"}
    /\ IF ~isMaintenanceModeEnabled
       THEN /\ fsAccess' = {}
            /\ fsReply' = FsReply("write", rawPath, FALSE, NONE,
                                  WriteErrorStatus(MsgMaintenance), [error |-> MsgMaintenance])
       ELSE LET target == resolveManagedPath(rawPath, FALSE) IN
            IF ~target.ok
            THEN /\ fsAccess' = {}
                 /\ fsReply' = FsReply("write", rawPath, FALSE, target,
                                       WriteErrorStatus(target.error), [error |-> target.error])
            ELSE /\ fsAccess' = MkdirAccess(PosixDirname(target.absolute))
                                   \cup {[op |-> "write", path |-> target.absolute]}
                 /\ fsReply' =
                      IF found = "file"
                      THEN FsReply("write", rawPath, FALSE, target, 200,
                                   [success |-> TRUE, path |-> target.absolute])
                      ELSE FsReply("write", rawPath, FALSE, target,
                                   WriteErrorStatus(OsError(found)), [error |-> OsError(found)])
    /\ UNCHANGED <<env, transferVars, managedRoots, fsRequest, keyVars, jobVars>>

handleDeletePath(rawPath, found) ==
    /\ found \in {"file", "directory", "ENOENT", "EACCES"}
    /\ IF ~isMaintenanceModeEnabled
       THEN /\ fsAccess' = {}
            /\ fsReply' = FsReply("delete", rawPath, FALSE, NONE,
                                  WriteErrorStatus(MsgMaintenance), [error |-> MsgMaintenance])
       ELSE LET target == resolveManagedPath(rawPath, FALSE) IN
            IF ~target.ok
            THEN /\ fsAccess' = {}
                 /\ fsReply' = FsReply("delete", rawPath, FALSE, target,
                                       WriteErrorStatus(target.error), [error |-> target.error])
            ELSE /\ fsAccess' = {[op |-> "rm", path |-> target.absolute]}
                 /\ fsReply' =
                      IF found = "EACCES"
                      THEN FsReply("delete", rawPath, FALSE, target,
                                   WriteErrorStatus(OsError(found)), [error |-> OsError(found)])
                      ELSE FsReply("delete", rawPath, FALSE, target, 200,
                                   [success |-> TRUE, path |-> target.absolute])
    /\ UNCHANGED <<env, transferVars, managedRoots, fsRequest, keyVars, jobVars>>

\* rawPath is body.path; NULL when the body is not JSON or has no path
handleCreateDirectory(rawPath, found) ==
    /\ found \in {"directory", "EACCES"}
    /\ IF ~isMaintenanceModeEnabled
       THEN /\ fsAccess' = {}
            /\ fsReply' = FsReply("mkdir", rawPath, FALSE, NONE,
                                  WriteErrorStatus(MsgMaintenance), [error |-> MsgMaintenance])
       ELSE IF rawPath = NULL \/ Trim(rawPath) = <<>>
       THEN /\ fsAccess' = {}
            /\ fsReply' = FsReply("mkdir", rawPath, FALSE, NONE, 400,
                                  [error |-> <<"Directory path is required">>])
       ELSE LET target == resolveManagedPath(rawPath, FALSE) IN
            IF ~target.ok
            THEN /\ fsAccess' = {}
                 /\ fsReply' = FsReply("mkdir", rawPath, FALSE, target,
                                       WriteErrorStatus(target.error), [error |-> target.error])
            ELSE /\ fsAccess' = MkdirAccess(target.absolute)
                 /\ fsReply' =
                      IF found = "directory"
                      THEN FsReply("mkdir", rawPath, FALSE, target, 200,
                                   [success |-> TRUE, path |-> target.absolute])
                      ELSE FsReply("mkdir", rawPath, FALSE, target,
                                   WriteErrorStatus(OsError(found)), [error |-> OsError(found)])
    /\ UNCHANGED <<env, transferVars, managedRoots, fsRequest, keyVars, jobVars>>

\* handleFileServe(url.pathname): the default GET handler
handleFileServe(pathname, found) ==
    LET slashed  == IF StartsWith(pathname, <<"/">>) THEN pathname ELSE <<"/">> \o pathname
        single   == IF StartsWith(slashed, <<"/", "/">>) THEN Tail(slashed) ELSE slashed
        filePath == IF Len(single) > 1 /\ single[Len(single)] = "/"
                    THEN StripTrailingSlashes(single) ELSE single
        onDisk   == PosixResolveFromRoot(filePath)
    IN
    /\ fsAccess' =
         {[op |-> "stat", path |-> onDisk]}
            \cup (IF found = "directory" THEN {[op |-> "readdir", path |-> onDisk]} ELSE {})
            \cup (IF found = "file" THEN {[op |-> "read", path |-> onDisk]} ELSE {})
    /\ fsReply' =
         CASE found = "directory" ->
                FsReply("serve", pathname, FALSE, NONE, 200, [listing |-> filePath])
           [] found = "file" ->
                FsReply("serve", pathname, FALSE, NONE, 200, [content |-> filePath])
           [] found = "ENOENT" ->
                FsReply("serve", pathname, FALSE, NONE, 404, [text |-> "File not found"])
           [] found = "EACCES" ->
                FsReply("serve", pathname, FALSE, NONE, 500, [text |-> "Permission denied"])
           [] OTHER ->
                FsReply("serve", pathname, FALSE, NONE, 500,
                        [text |-> <<"Internal server error: ">> \o OsError(found)])
    /\ UNCHANGED <<env, transferVars, managedRoots, fsRequest, keyVars, jobVars>>

\* handleRequest: the routes to the filesystem handlers.  The handlers keep
\* no state, so a behaviour is one request, for the path drawn by FsInit.
RequestPending == fsReply = NoResponse

GetFsList ==
    RequestPending /\ \E found \in FsOutcomes : handleListFiles(fsRequest, found)

GetFsFile ==
    RequestPending /\ \E found \in FsOutcomes : handleReadFile(fsRequest, found)

PutFsFile ==
    RequestPending /\ \E found \in FsOutcomes : handleWriteFile(fsRequest, found)

DeleteFsFile ==
    RequestPending /\ \E found \in FsOutcomes : handleDeletePath(fsRequest, found)

PostFsDirectory ==
    RequestPending /\ \E found \in FsOutcomes : handleCreateDirectory(fsRequest, found)

GetPath ==
    /\ RequestPending
    /\ fsRequest \in UrlPathnames
    /\ \E found \in FsOutcomes : handleFileServe(fsRequest, found)

FsNext ==
    \/ GetFsList
    \/ GetFsFile
    \/ PutFsFile
    \/ DeleteFsFile
    \/ PostFsDirectory
    \/ GetPath

FsSpec == FsInit /\ [][FsNext]_vars


(***************************************************************************)
(* What the gateway is to guarantee, stated on path segments rather than   *)
(* on characters: the entry a request path names, and whether an entry is  *)
(* a managed root or nested under one.                                     *)
(***************************************************************************)

\* The segments of the entry that the segments segs name, read from the
\* filesystem root: "" and "." name nothing, ".." names the parent (the
\* root is its own parent).
RECURSIVE EntrySegments(_)
EntrySegments(segs) ==
    IF segs = <<>> THEN <<>>
    ELSE LET before == EntrySegments(SubSeq(segs, 1, Len(segs) - 1))
             last   == segs[Len(segs)]
         IN  IF last = <<>> \/ last = <<".">> THEN before
             ELSE IF last = <<".", ".">>
             THEN (IF before = <<>> THEN <<>> ELSE SubSeq(before, 1, Len(before) - 1))
             ELSE Append(before, last)

IsBlank(raw) == raw = NULL \/ Trim(raw) = <<>>

\* The absolute path of the entry a request path names
RequestTarget(raw) ==
    <<"/">> \o Join(EntrySegments(Split(IF IsBlank(raw) THEN <<>> ELSE Trim(raw), "/")),
                   <<"/">>)

\* absolute is the root itself or an entry below it
UnderRoot(root, absolute) ==
    LET rs == FilterNonEmpty(Split(root, "/"))
        as == FilterNonEmpty(Split(absolute, "/"))
    IN  Len(rs) <= Len(as) /\ SubSeq(as, 1, Len(rs)) = rs

UnderSomeRoot(absolute) ==
    \E i \in 1..Len(managedRoots) : UnderRoot(managedRoots[i], absolute)

\* C9 (as stated): every filesystem operation exposed to HTTP callers, the
\* default GET handler included, only reads or modifies entries under a
\* managed root, and a target outside the roots is answered 403 (unless the
\* request was refused 400 before its path was looked at).
C9_AccessOnlyUnderManagedRoots ==
    fsReply.kind # "none" =>
        /\ \A a \in fsAccess : UnderSomeRoot(a.path)
        /\ (~IsBlank(fsReply.raw) /\ ~UnderSomeRoot(RequestTarget(fsReply.raw))
               /\ fsReply.status # 400)
              => fsReply.status = 403

TwoRootConfigurations == managedRoots \in { <<<<"/">>>>, <<STR_data>> }

\* C10 (as stated): with managed roots ["/"] or ["/data"], for every input,
\* resolveManagedPath succeeds exactly when the normalized absolute path is
\* a root or nested under one, the absolute path returned equals the root
\* returned or starts with root + "/", and an input outside all roots
\* throws "Path is outside managed roots".
C10_AsStated ==
    (fsReply.kind # "none" /\ fsReply.resolved # NONE /\ TwoRootConfigurations) =>
        LET r == fsReply.resolved
            t == RequestTarget(fsReply.raw)
        IN  /\ r.ok <=> UnderSomeRoot(t)
            /\ r.ok => (r.absolute = r.root \/ StartsWith(r.absolute, r.root \o <<"/">>))
            /\ ~UnderSomeRoot(t) => (~r.ok /\ r.error = MsgOutsideRoots)

\* C10 (amended): with managed roots ["/"] or ["/data"], for every non-blank
\* input, resolveManagedPath succeeds exactly when the normalized absolute
\* path is a root or nested under one; the absolute path returned is that
\* normalized path and equals the root returned, or starts with root + "/",
\* or the root returned is "/"; every other non-blank input throws "Path is
\* outside managed roots".  A blank or missing input resolves to the first
\* root when the fallback is allowed and throws "Path is required" when not.
C10_ResolveManagedPath ==
    (fsReply.kind # "none" /\ fsReply.resolved # NONE /\ TwoRootConfigurations) =>
        LET r == fsReply.resolved
            t == RequestTarget(fsReply.raw)
        IN  IF IsBlank(fsReply.raw)
            THEN IF fsReply.allowRootFallback
                 THEN r.ok /\ r.absolute = managedRoots[1] /\ r.root = managedRoots[1]
                 ELSE ~r.ok /\ r.error = MsgPathRequired
            ELSE /\ r.ok <=> UnderSomeRoot(t)
                 /\ r.ok => /\ r.absolute = t
                            /\ \E i \in 1..Len(managedRoots) : r.root = managedRoots[i]
                            /\ UnderRoot(r.root, r.absolute)
                            /\ \/ r.absolute = r.root
                               \/ StartsWith(r.absolute, r.root \o <<"/">>)
                               \/ r.root = <<"/">>
                 /\ ~r.ok => r.error = MsgOutsideRoots

\* C10 witness: under the root /data, a path that starts inside the root and
\* leaves it through ".." was rejected.
C10_Witness ==
    /\ fsReply.kind # "none"
    /\ fsReply.resolved # NONE
    /\ managedRoots = <<STR_data>>
    /\ fsReply.raw = <<"d", "a", "t", "a", "/", ".", ".", "/", "e", "t", "c">>
    /\ ~fsReply.resolved.ok
    /\ fsReply.resolved.error = MsgOutsideRoots


(***************************************************************************)
(* Background jobs.  A step of the model is one run of the event loop: a   *)
(* request handler up to its response, or the continuation of a            *)
(* background task from one await to the next.  What the awaited call      *)
(* (subprocess, filesystem, network) yields is an input of the step.       *)
(***************************************************************************)

\* The number of jobs, of both kinds, started in one behaviour
MaxJobs == 2

\* new Date() at the start of a backup run
JobDates == { [sec |-> <<17091, 64800>>, ms |-> 500] }

\* tarStat.size of the archive
ArchiveSizes == {1024}

\* Date.now(): the value is not modelled, only that the field holds one
Timestamp == [now |-> TRUE]

STR_modrinth   == <<"m", "o", "d", "r", "i", "n", "t", "h">>
STR_curseforge == <<"c", "u", "r", "s", "e", "f", "o", "r", "g", "e">>
ModpackSources == {STR_modrinth, STR_curseforge}

\* generateJobId(source): `${source}-${Date.now().toString(36)}-${random}`;
\* suffix stands for the time and random parts, which differ between calls
generateJobId(source, suffix) == source \o <<"-">> \o NatToString(suffix)

\* A thrown Error, and String(error) of it
Thrown(message) == [message |-> message]

StringOfError(e) ==
    IF e.message = <<>> THEN <<"Error">> ELSE <<"Error: ">> \o e.message

JobCount == Cardinality(DOMAIN backupJobs) + Cardinality(DOMAIN modpackJobs)

\* Map.prototype.set
MapSet(map, key, value) ==
    [k \in DOMAIN map \cup {key} |-> IF k = key THEN value ELSE map[k]]

\* this.backupJobs.get(id): the job, or undefined
GetBackupJobLost(id) == NONE

GetBackupJob(id) == IF id \in DOMAIN backupJobs THEN backupJobs[id] ELSE NONE

(***************************************************************************)
(* executeBackupJob                                                        *)
(***************************************************************************)

\* job.status = "running" (line 1000), left out
BackupRunningSkipped(job) == job

\* job.status = "running" (line 1000)
BackupRunning(job) == [job EXCEPT !.status = "running"]

\* The catch block that forgets completedAt
BackupFailedNoCompletedAt(job, e) ==
    [job EXCEPT !.status = "failed",
                !.error = <<"Backup failed: ">>
                            \o (IF e.message # <<>> THEN e.message ELSE StringOfError(e))]

\* The catch block that reports no cause
BackupFailedNoCause(job, e) ==
    [job EXCEPT !.status = "failed", !.completedAt = Timestamp,
                !.error = <<"Backup failed">>]

\* The catch block of executeBackupJob (lines 1082-1088)
BackupFailed(job, e) ==
    [job EXCEPT !.status = "failed", !.completedAt = Timestamp,
                !.error = <<"Backup failed: ">>
                            \o (IF e.message # <<>> THEN e.message ELSE StringOfError(e))]

\* Lines 1077-1081
BackupSucceeded(job, task) ==
    [job EXCEPT !.status = "success", !.completedAt = Timestamp,
                !.result = [backup_path |-> task.backupFilename, size |-> task.fileSize,
                            note |-> "complete backup"]]

BackupTaskDone(task, e) == [task EXCEPT !.pc = "done", !.thrown = e]

\* The state after a continuation of the run of job id that leaves the job
\* as newJob and the task as newTask
BackupContinue(id, newJob, newTask) ==
    /\ backupJobs' = MapSet(backupJobs, id, newJob)
    /\ backupTasks' = MapSet(backupTasks, id, newTask)
    /\ backupLog' =
         IF newJob.status # backupJobs[id].status
         THEN [backupLog EXCEPT ![id] = Append(@, newJob.status)]
         ELSE backupLog
    /\ response' = NoResponse
    /\ UNCHANGED <<env, transferVars, keyVars, fsVars, backupRuns, backupCount,
                   modpackJobs, modpackTasks, modpackLog>>

\* executeBackupJob from its call to its first await (lines 996-1026): the
\* job and the task it leaves.  created is the job as the handler made it.
ExecuteBackupJobStart(created, now) ==
    LET running   == BackupRunning(created)
        segments  == FilterNonEmpty(Split(created.directory, "/"))
        dirName   == IF segments = <<>> THEN <<"b", "a", "c", "k", "u", "p">>
                     ELSE segments[Len(segments)]
        locals    == [pc |-> "tar",
                      backupFilename |-> generateBackupKey(dirName, now),
                      tempFile |-> <<"/", "t", "m", "p", "/", "b", "a", "c", "k", "u", "p", "_">>
                                     \o formatUTCDateYYYYMMDDHH(now) \o <<"_">> \o created.id
                                     \o <<".", "t", "a", "r", ".", "g", "z">>,
                      fileSize |-> 0,
                      thrown |-> NONE]
        noClient  == Thrown(<<"Missing AWS credentials in environment">>)
    IN  IF env.AWS_CREDENTIALS
        THEN [job |-> running, task |-> locals,
              log |-> <<created.status>>
                        \o (IF running.status # created.status THEN <<running.status>> ELSE <<>>)]
        ELSE [job |-> BackupFailed(running, noClient),
              task |-> [pc |-> "done", backupFilename |-> NULL, tempFile |-> NULL,
                        fileSize |-> 0, thrown |-> noClient],
              log |-> <<created.status>>
                        \o (IF running.status # created.status THEN <<running.status>> ELSE <<>>)
                        \o <<"failed">>]

\* handleBackgroundBackupStart(pathname, id)
handleBackgroundBackupStart(pathname, id, now) ==
    LET directory == IF StartsWith(pathname, <<"/">>) THEN pathname ELSE <<"/">> \o pathname
        existing  == GetBackupJob(id)
        created   == [id |-> id, directory |-> directory, status |-> "pending",
                      startedAt |-> Timestamp, completedAt |-> NONE,
                      result |-> NONE, error |-> NULL]
        run       == ExecuteBackupJobStart(created, now)
    IN  IF existing # NONE
        THEN /\ response' = [kind |-> "backup-existing", id |-> existing.id,
                             directory |-> existing.directory, status |-> existing.status,
                             startedAt |-> existing.startedAt,
                             completedAt |-> existing.completedAt]
             /\ UNCHANGED <<env, transferVars, keyVars, fsVars, backupJobs, backupTasks, backupLog,
                            backupRuns, backupCount, modpackJobs, modpackTasks,
                            modpackLog, tmpFiles, unlinked>>
        ELSE /\ JobCount < MaxJobs
             /\ backupJobs' = MapSet(backupJobs, id, run.job)
             /\ backupTasks' = MapSet(backupTasks, id, run.task)
             /\ backupLog' = MapSet(backupLog, id, run.log)
             /\ backupRuns' = MapSet(backupRuns, id,
                                     IF id \in DOMAIN backupRuns THEN backupRuns[id] + 1 ELSE 1)
             /\ backupCount' = backupCount + 1
             /\ response' = [kind |-> "backup-start", id |-> id, started |-> TRUE,
                             directory |-> directory, status |-> run.job.status,
                             startedAt |-> run.job.startedAt]
             /\ UNCHANGED <<env, transferVars, keyVars, fsVars, modpackJobs, modpackTasks, modpackLog,
                            tmpFiles, unlinked>>

\* url.pathname and backup_id of the start-backup requests; "/" has no last
\* segment, and b1 is asked for under two pathnames
BackupRequests ==
    { [pathname |-> STR_data \o <<"/", "w", "o", "r", "l", "d">>, id |-> <<"b", "1">>],
      [pathname |-> <<"/">>, id |-> <<"b", "1">>],
      [pathname |-> STR_data \o <<"/", "w", "o", "r", "l", "d">>, id |-> <<"b", "2">>] }

StartBackup ==
    \E request \in BackupRequests, now \in JobDates :
        handleBackgroundBackupStart(request.pathname, request.id, now)

\* await tarProc.exited (lines 1026-1033); a failed tar may leave a partial
\* archive
BackupTarExited ==
    \E id \in DOMAIN backupTasks, tarExit \in {0, 2}, written \in BOOLEAN :
        LET task == backupTasks[id]
            e    == Thrown(<<"tar command failed with exit code ", "2",
                             ": ", "stderr of tar">>)
        IN  /\ task.pc = "tar"
            /\ tarExit = 0 => written
            /\ tmpFiles' = IF written THEN tmpFiles \cup {task.tempFile} ELSE tmpFiles
            /\ unlinked' = unlinked
            /\ IF tarExit # 0
               THEN BackupContinue(id, BackupFailed(backupJobs[id], e), BackupTaskDone(task, e))
               ELSE BackupContinue(id, backupJobs[id], [task EXCEPT !.pc = "stat"])

\* await tarFile.stat() (lines 1038-1040)
BackupStatDone ==
    \E id \in DOMAIN backupTasks, ok \in BOOLEAN, size \in ArchiveSizes :
        LET task == backupTasks[id]
            e    == Thrown(<<"ENOENT: no such file or directory, stat">>)
        IN  /\ task.pc = "stat"
            /\ UNCHANGED <<tmpFiles, unlinked>>
            /\ IF ok
               THEN BackupContinue(id, backupJobs[id],
                                   [task EXCEPT !.pc = "upload", !.fileSize = size])
               ELSE BackupContinue(id, BackupFailed(backupJobs[id], e), BackupTaskDone(task, e))

\* await s3Client.write(...) (lines 1066-1069); a rejection may carry an
\* empty message
BackupUploadDone ==
    \E id \in DOMAIN backupTasks,
       outcome \in {"ok", "S3 error: service unavailable", ""} :
        LET task == backupTasks[id]
            e    == Thrown(IF outcome = "" THEN <<>> ELSE <<outcome>>)
        IN  /\ task.pc = "upload"
            /\ UNCHANGED <<tmpFiles, unlinked>>
            /\ IF outcome = "ok"
               THEN BackupContinue(id, backupJobs[id], [task EXCEPT !.pc = "truncate"])
               ELSE BackupContinue(id, BackupFailed(backupJobs[id], e), BackupTaskDone(task, e))

\* await Bun.write(tempFile, "") (lines 1070-1075): resolved, unlink is
\* called; rejected, the inner catch logs and the job succeeds
BackupTruncateDone ==
    \E id \in DOMAIN backupTasks, ok \in BOOLEAN :
        LET task == backupTasks[id]
        IN  /\ task.pc = "truncate"
            /\ tmpFiles' = tmpFiles
            /\ unlinked' = IF ok THEN unlinked \cup {task.tempFile} ELSE unlinked
            /\ IF ok
               THEN BackupContinue(id, backupJobs[id], [task EXCEPT !.pc = "unlink"])
               ELSE BackupContinue(id, BackupSucceeded(backupJobs[id], task),
                                   BackupTaskDone(task, NONE))

\* await unlink(tempFile) (lines 1072-1081, 2060-2067): rm -f exits, the
\* inner catch swallows a failure, the job succeeds
BackupUnlinkDone ==
    \E id \in DOMAIN backupTasks, exitCode \in {0, 1} :
        LET task == backupTasks[id]
        IN  /\ task.pc = "unlink"
            /\ tmpFiles' = IF exitCode = 0 THEN tmpFiles \ {task.tempFile} ELSE tmpFiles
            /\ unlinked' = unlinked
            /\ BackupContinue(id, BackupSucceeded(backupJobs[id], task),
                              BackupTaskDone(task, NONE))


(***************************************************************************)
(* Modpack install jobs: processModrinthJob and processCurseforgeJob have   *)
(* the same shape, stage by stage.                                         *)
(***************************************************************************)

\* The number of entries of the pack manifest that are installed
ManifestFiles == 2

\* An order that resets the mods directory before the pack is downloaded
InstallStagesResetFirst ==
    <<"resolve", "reset", "download", "extract", "manifest", "overrides", "files">>

\* The awaits of a process...Job run inside its try block, in order
InstallStages ==
    <<"resolve", "download", "extract", "manifest", "reset", "overrides", "files">>

NextStage(stage) ==
    InstallStages[(CHOOSE i \in 1..Len(InstallStages) : InstallStages[i] = stage) + 1]

\* The Error a failing stage throws
StageError(source, stage) ==
    Thrown(
      CASE stage = "mkdir"     -> <<"Failed to create directory ", "tempDir", ": ", "stderr">>
        [] stage = "resolve"   -> IF source = STR_modrinth
                                  THEN <<"Modrinth API request failed (", "503", ")">>
                                  ELSE <<"CurseForge API request failed (", "503", ")">>
        [] stage = "download"  -> <<"Failed to download ", "url", " (", "404 Not Found", ")">>
        [] stage = "extract"   -> <<"Failed to extract archive: ", "stderr">>
        [] stage = "manifest"  -> IF source = STR_modrinth
                                  THEN <<"modrinth.index.json not found in archive">>
                                  ELSE <<"manifest.json not found in CurseForge archive">>
        [] stage = "reset"     -> <<"Failed to create directory ", "/data/mods", ": ", "stderr">>
        [] stage = "overrides" -> <<"Failed to copy overrides: ", "stderr">>
        [] OTHER               -> <<"SHA-1 mismatch for ", "relPath">>)

\* job.progress.phase as a stage begins
StagePhase(source, stage) ==
    CASE stage = "resolve"   -> IF source = STR_modrinth THEN "Resolving Modrinth metadata"
                                ELSE "Resolving CurseForge metadata"
      [] stage = "download"  -> "Downloading pack archive"
      [] stage = "extract"   -> "Extracting pack archive"
      [] stage = "manifest"  -> "Extracting pack archive"
      [] stage = "reset"     -> "Preparing filesystem for install"
      [] stage = "overrides" -> "Preparing filesystem for install"
      [] OTHER               -> "Preparing filesystem for install"

\* `/tmp/modpack-${job.id}` and `/tmp/curseforge-${job.id}`
InstallTempDir(job) ==
    <<"/", "t", "m", "p", "/">>
        \o (IF job.source = STR_modrinth THEN <<"m", "o", "d", "p", "a", "c", "k">>
            ELSE STR_curseforge)
        \o <<"-">> \o job.id

\* The detached .catch of handleModrinthInstall (lines 883-889) and of
\* handleCurseforgeInstall (lines 930-936); every value thrown is an Error
InstallFailed(job, e) ==
    [job EXCEPT !.status = "failed", !.error = e.message,
                !.progress = [phase |-> "failed", note |-> e.message],
                !.updatedAt = Timestamp]

\* removePath that throws on a non-zero exit, as unlink does
removePathThrowsOnExit(targetPath, exitCode) == exitCode # 0

\* removePath(targetPath) (lines 2085-2091) awaits the exit of rm -rf and
\* ignores the exit code: it never throws
removePathThrows(targetPath, exitCode) == FALSE

\* A removePath that runs rm -rf on no path
removePathSkipsAll(targetPath) == TRUE

\* removePath runs rm -rf on every path but these
removePathSkips(targetPath) ==
    targetPath = <<>> \/ targetPath = <<"/">> \/ targetPath = STR_data

\* handleModrinthInstall / handleCurseforgeInstall: body is "invalid" (not
\* JSON), "missing" (no url, no numeric ids) or "valid"
handleModpackInstall(source, body, suffix) ==
    LET refusal ==
            IF body = "invalid" THEN <<"Invalid JSON body">>
            ELSE IF body = "missing"
            THEN (IF source = STR_modrinth THEN <<"Missing Modrinth pack URL">>
                  ELSE <<"projectId and fileId are required numeric values">>)
            ELSE IF ~isMaintenanceModeEnabled THEN MsgMaintenance
            ELSE IF source = STR_curseforge /\ ~env.CURSEFORGE_API_KEY
            THEN <<"CURSEFORGE_API_KEY is not configured on the container">>
            ELSE NULL
        jobId == generateJobId(source, suffix)
        job   == [id |-> jobId, source |-> source, status |-> "pending",
                  startedAt |-> Timestamp, updatedAt |-> Timestamp,
                  progress |-> [phase |-> "queued"], result |-> NONE, error |-> NULL]
    IN  IF refusal # NULL
        THEN /\ response' = [kind |-> "install-refused", source |-> source,
                             payload |-> body, status |-> 400, error |-> refusal]
             /\ UNCHANGED <<env, transferVars, keyVars, fsVars, backupJobs, backupTasks, backupLog,
                            backupRuns, backupCount, modpackJobs, modpackTasks,
                            modpackLog, tmpFiles, unlinked>>
        ELSE /\ JobCount < MaxJobs
             /\ jobId \notin DOMAIN modpackJobs
             /\ modpackJobs' = MapSet(modpackJobs, jobId, job)
             /\ modpackTasks' = MapSet(modpackTasks, jobId,
                                       [pc |-> "mkdir", tempDir |-> InstallTempDir(job),
                                        overridesApplied |-> FALSE, thrown |-> NONE,
                                        settled |-> <<>>])
             /\ modpackLog' = MapSet(modpackLog, jobId, <<job.status>>)
             /\ response' = [kind |-> "install-start", source |-> source,
                             payload |-> body, status |-> 200, id |-> jobId,
                             jobStatus |-> job.status]
             /\ UNCHANGED <<env, transferVars, keyVars, fsVars, backupJobs, backupTasks, backupLog,
                            backupRuns, backupCount, tmpFiles, unlinked>>

\* The request bodies of the install requests: well-formed payloads
InstallBodies == {"valid"}

StartInstall ==
    \E source \in ModpackSources, body \in InstallBodies :
        handleModpackInstall(source, body,
            Cardinality({id \in DOMAIN modpackJobs : modpackJobs[id].source = source}) + 1)

\* The state after a continuation of the run of install job id
InstallContinue(id, newJob, newTask) ==
    /\ modpackJobs' = MapSet(modpackJobs, id, newJob)
    /\ modpackTasks' = MapSet(modpackTasks, id, newTask)
    /\ modpackLog' =
         IF newJob.status # modpackJobs[id].status
         THEN [modpackLog EXCEPT ![id] = Append(@, newJob.status)]
         ELSE modpackLog
    /\ response' = NoResponse
    /\ UNCHANGED <<env, transferVars, keyVars, fsVars, backupJobs, backupTasks, backupLog,
                   backupRuns, backupCount>>

\* await ensureDirectory(tempDir), before the try block (lines 1092-1098):
\* a failure rejects the run with no finally, and the detached catch marks
\* the job failed
InstallTempDirMade ==
    \E id \in DOMAIN modpackTasks, ok \in BOOLEAN :
        LET task == modpackTasks[id]
            job  == modpackJobs[id]
            e    == StageError(job.source, "mkdir")
        IN  /\ task.pc = "mkdir"
            /\ tmpFiles' = IF ok THEN tmpFiles \cup {task.tempDir} ELSE tmpFiles
            /\ unlinked' = unlinked
            /\ IF ok
               THEN InstallContinue(id,
                       [job EXCEPT !.status = "downloading",
                                   !.progress = [phase |-> StagePhase(job.source, "resolve")],
                                   !.updatedAt = Timestamp],
                       [task EXCEPT !.pc = "resolve"])
               ELSE InstallContinue(id, InstallFailed(job, e),
                                    [task EXCEPT !.pc = "done", !.thrown = e])

\* One await of the try block settles (lines 1100-1140 and 1155-1194): the
\* run goes on to the next stage, or to the finally block with the Error
\* thrown; after the last stage the job is completed, then finally runs
InstallStageDone ==
    \E id \in DOMAIN modpackTasks, ok \in BOOLEAN, applied \in BOOLEAN :
        LET task == modpackTasks[id]
            job  == modpackJobs[id]
            e    == StageError(job.source, task.pc)
            seen == Append(task.settled, [stage |-> task.pc, ok |-> ok])
        IN  /\ \E i \in 1..Len(InstallStages) : InstallStages[i] = task.pc
            /\ (task.pc # "overrides" \/ ~ok) => ~applied
            /\ UNCHANGED <<tmpFiles, unlinked>>
            /\ IF ~ok
               THEN InstallContinue(id, job, [task EXCEPT !.pc = "cleanup", !.thrown = e,
                                                          !.settled = seen])
               ELSE IF task.pc = "files"
               THEN InstallContinue(id,
                       [job EXCEPT !.status = "completed",
                                   !.progress = [phase |-> "completed",
                                                 note |-> "Modpack installation finished"],
                                   !.result = [filesInstalled |-> ManifestFiles,
                                               overridesApplied |-> task.overridesApplied],
                                   !.updatedAt = Timestamp],
                       [task EXCEPT !.pc = "cleanup", !.settled = seen])
               ELSE InstallContinue(id,
                       [job EXCEPT !.status = IF task.pc = "overrides" THEN "installing"
                                              ELSE @,
                                   !.progress = [phase |-> StagePhase(job.source,
                                                                      NextStage(task.pc))],
                                   !.updatedAt = Timestamp],
                       [task EXCEPT !.pc = NextStage(@),
                                    !.settled = seen,
                                    !.overridesApplied = IF task.pc = "overrides"
                                                         THEN applied ELSE @])

\* finally { await removePath(tempDir) } (lines 1141-1143, 1195-1197), then
\* the run settles: rejected with the Error thrown, the detached catch marks
\* the job failed
InstallCleanedUp ==
    \E id \in DOMAIN modpackTasks, exitCode \in {0, 1} :
        LET task   == modpackTasks[id]
            job    == modpackJobs[id]
            skip   == removePathSkips(task.tempDir)
            thrown == IF ~skip /\ removePathThrows(task.tempDir, exitCode)
                      THEN Thrown(<<"Failed to remove ", "tempDir">>)
                      ELSE task.thrown
        IN  /\ task.pc = "cleanup"
            /\ unlinked' = IF skip THEN unlinked ELSE unlinked \cup {task.tempDir}
            /\ tmpFiles' = IF skip \/ exitCode # 0 THEN tmpFiles
                           ELSE tmpFiles \ {task.tempDir}
            /\ InstallContinue(id,
                  IF thrown # NONE THEN InstallFailed(job, thrown) ELSE job,
                  [task EXCEPT !.pc = "done", !.thrown = thrown])

(***************************************************************************)
(* The job registries                                                      *)
(***************************************************************************)

JobEnvs ==
    { [DefaultEnv EXCEPT !.MAINTENANCE_MODE = STR_true],
      [DefaultEnv EXCEPT !.MAINTENANCE_MODE = STR_true, !.AWS_CREDENTIALS = FALSE,
                         !.CURSEFORGE_API_KEY = FALSE],
      DefaultEnv }

Init ==
    /\ env \in JobEnvs
    /\ KeyIdle
    /\ FsIdle
    /\ JobsIdle
    /\ TransferIdle

Next ==
    \/ StartBackup
    \/ BackupTarExited
    \/ BackupStatDone
    \/ BackupUploadDone
    \/ BackupTruncateDone
    \/ BackupUnlinkDone
    \/ StartInstall
    \/ InstallTempDirMade
    \/ InstallStageDone
    \/ InstallCleanedUp

Spec == Init /\ [][Next]_vars


(***************************************************************************)
(* Properties of the background jobs                                       *)
(***************************************************************************)

IsPrefix(s, t) == Len(s) <= Len(t) /\ SubSeq(t, 1, Len(s)) = s

IsProperPrefix(s, t) == Len(s) < Len(t) /\ IsPrefix(s, t)

Last(s) == s[Len(s)]

BackupTerminal(job) == job.status \in {"success", "failed"}

InstallTerminal(job) == job.status \in {"completed", "failed"}

\* C2 as the specification states it: the response to a start-backup request
\* for an id that was not in the registry carries started: true and the
\* status "pending".
C2_StartResponseIsPending ==
    response.kind = "backup-start"
        => /\ response.started
           /\ response.id \in DOMAIN backupJobs
           /\ response.status = "pending"

\* C3: a start-backup request for an id that is already in the registry
\* answers with the fields of the existing record, changes no job record and
\* starts no run; no id ever has more than one run of executeBackupJob.
C3_StartIsIdempotent ==
    /\ [][\A id \in DOMAIN backupJobs :
            (response'.kind \in {"backup-start", "backup-existing"} /\ response'.id = id)
                => /\ response'.kind = "backup-existing"
                   /\ response'.directory = backupJobs[id].directory
                   /\ response'.status = backupJobs[id].status
                   /\ response'.startedAt = backupJobs[id].startedAt
                   /\ response'.completedAt = backupJobs[id].completedAt
                   /\ backupJobs' = backupJobs
                   /\ backupTasks' = backupTasks
                   /\ backupRuns' = backupRuns]_vars
    /\ [](\A id \in DOMAIN backupRuns : backupRuns[id] <= 1)

C3_Witness ==
    /\ response.kind = "backup-existing"
    /\ backupJobs[response.id].status = "running"
    /\ backupRuns[response.id] = 1

\* C4: the statuses a backup job has held, in order, are a prefix of
\* pending, running, success or of pending, running, failed, so a terminal
\* status is never left; the job's status is the last of them.
C4_BackupStatusMoves ==
    \A id \in DOMAIN backupJobs :
        /\ \/ IsPrefix(backupLog[id], <<"pending", "running", "success">>)
           \/ IsPrefix(backupLog[id], <<"pending", "running", "failed">>)
        /\ backupLog[id] # <<>>
        /\ backupJobs[id].status = Last(backupLog[id])

C4_Witness ==
    /\ \E id \in DOMAIN backupJobs : backupLog[id] = <<"pending", "running", "success">>
    /\ \E id \in DOMAIN backupJobs : backupLog[id] = <<"pending", "running", "failed">>

\* C5: the statuses an install job has held, in order, are a prefix of
\* pending, downloading, installing, completed, or a prefix of pending,
\* downloading, installing followed by failed: a completed or failed job
\* never changes status again, whatever the cleanup step does.
C5_InstallStatusMoves ==
    \A id \in DOMAIN modpackJobs :
        LET log == modpackLog[id]
        IN  /\ log # <<>>
            /\ modpackJobs[id].status = Last(log)
            /\ \/ IsPrefix(log, <<"pending", "downloading", "installing", "completed">>)
               \/ /\ Last(log) = "failed"
                  /\ Len(log) >= 2
                  /\ IsPrefix(SubSeq(log, 1, Len(log) - 1),
                              <<"pending", "downloading", "installing">>)

C5_Witness ==
    /\ \E id \in DOMAIN modpackJobs :
          /\ modpackJobs[id].status = "completed"
          /\ modpackTasks[id].pc = "done"
          /\ modpackTasks[id].tempDir \in unlinked
    /\ \E id \in DOMAIN modpackJobs :
          modpackLog[id] = <<"pending", "downloading", "installing", "failed">>

\* C6: in every state a job has a result only when its status is success
\* (backup) or completed (install), an error only when its status is failed,
\* and a backup job has completedAt exactly when it is success or failed.
C6_ResultErrorCompletedAt ==
    /\ \A id \in DOMAIN backupJobs :
          LET job == backupJobs[id]
          IN  /\ job.result # NONE => job.status = "success"
              /\ job.error # NULL => job.status = "failed"
              /\ job.completedAt # NONE <=> BackupTerminal(job)
    /\ \A id \in DOMAIN modpackJobs :
          LET job == modpackJobs[id]
          IN  /\ job.result # NONE => job.status = "completed"
              /\ job.error # NULL => job.status = "failed"

C6_Witness ==
    /\ \E id \in DOMAIN backupJobs :
          /\ backupJobs[id].status = "failed"
          /\ backupJobs[id].error # NULL
          /\ backupJobs[id].completedAt # NONE
    /\ \E id \in DOMAIN modpackJobs :
          /\ modpackJobs[id].status = "completed"
          /\ modpackJobs[id].result # NONE

\* C7 as the specification states it: when a step of a backup job or a stage
\* of an install job has thrown, the job ends failed with the message of the
\* exception, unchanged, as its error.
C7_ErrorIsMessageVerbatim ==
    /\ \A id \in DOMAIN backupJobs :
          (backupTasks[id].pc = "done" /\ backupTasks[id].thrown # NONE)
              => /\ backupJobs[id].status = "failed"
                 /\ backupJobs[id].error = backupTasks[id].thrown.message
    /\ \A id \in DOMAIN modpackJobs :
          (modpackTasks[id].pc = "done" /\ modpackTasks[id].thrown # NONE)
              => /\ modpackJobs[id].status = "failed"
                 /\ modpackJobs[id].error = modpackTasks[id].thrown.message

\* C7, corrected: when a step of a backup job has thrown, the job ends failed
\* and its error is "Backup failed: " followed by the message of the
\* exception, or by String(error) when the message is empty; when a stage of
\* an install job has thrown, the job ends failed and its error is the
\* message of the exception, unchanged.
C7_ErrorCarriesMessage ==
    /\ \A id \in DOMAIN backupJobs :
          LET e == backupTasks[id].thrown
          IN  (backupTasks[id].pc = "done" /\ e # NONE)
                  => /\ backupJobs[id].status = "failed"
                     /\ backupJobs[id].error =
                          <<"Backup failed: ">>
                              \o (IF e.message = <<>> THEN <<"Error">> ELSE e.message)
    /\ \A id \in DOMAIN modpackJobs :
          (modpackTasks[id].pc = "done" /\ modpackTasks[id].thrown # NONE)
              => /\ modpackJobs[id].status = "failed"
                 /\ modpackJobs[id].error = modpackTasks[id].thrown.message

C7_Witness ==
    /\ \E id \in DOMAIN backupJobs :
          /\ backupTasks[id].pc = "done"
          /\ backupTasks[id].thrown = Thrown(<<"S3 error: service unavailable">>)
    /\ \E id \in DOMAIN modpackJobs :
          /\ modpackTasks[id].pc = "done"
          /\ modpackTasks[id].thrown # NONE

\* C8 as the specification states it: once a backup job that named its temp
\* archive is success or failed, removal of the temp archive has been
\* attempted.
C8_TempFileRemovalAttempted ==
    \A id \in DOMAIN backupJobs :
        (BackupTerminal(backupJobs[id]) /\ backupTasks[id].tempFile # NULL)
            => backupTasks[id].tempFile \in unlinked

(***************************************************************************)
(* The maintenance gate of the /fs handlers                                *)
(***************************************************************************)

\* The external flag: MAINTENANCE_MODE is the word true, in any case
MaintenanceFlag ==
    env.MAINTENANCE_MODE # NULL /\ ToLowerCase(env.MAINTENANCE_MODE) = STR_true

MutatingHandlers == {"write", "delete", "mkdir"}

\* The filesystem call a mutating handler makes on its target
MutationOf(handler) ==
    CASE handler = "write" -> "write" [] handler = "delete" -> "rm" [] OTHER -> "mkdir"

\* C11: with the maintenance flag false, write-file, delete-path and
\* create-directory answer 400 with the maintenance-required error and touch
\* nothing, whatever the path; with the flag true and a path under a managed
\* root they make their filesystem call on the resolved path and answer
\* success with that path, unless the filesystem call itself fails (500).
\* List and read never answer with the maintenance error: they resolve the
\* path and reach the filesystem with the flag false as with it true.
C11_MaintenanceGate ==
    /\ (fsReply.kind \in MutatingHandlers /\ ~MaintenanceFlag)
          => /\ fsReply.status = 400
             /\ fsReply.body = [error |-> MsgMaintenance]
             /\ fsAccess = {}
    /\ (fsReply.kind \in MutatingHandlers /\ MaintenanceFlag
           /\ resolveManagedPath(fsReply.raw, FALSE).ok)
          => LET target == resolveManagedPath(fsReply.raw, FALSE).absolute
             IN  /\ target = <<"/">>
                    \/ [op |-> MutationOf(fsReply.kind), path |-> target] \in fsAccess
                 /\ \/ /\ fsReply.status = 200
                       /\ fsReply.body = [success |-> TRUE, path |-> target]
                    \/ /\ fsReply.status = 500
                       /\ fsReply.body \in {[error |-> OsError(code)] : code \in FsOutcomes}
    /\ fsReply.kind \in {"list", "read"}
          => /\ fsReply.body # [error |-> MsgMaintenance]
             /\ fsReply.resolved = resolveManagedPath(fsReply.raw, fsReply.kind = "list")
             /\ fsReply.resolved.ok => fsAccess # {}

\* C11 witness: with the flag false, a write to a path under a managed root
\* was refused.
C11_Witness ==
    /\ fsReply.kind = "write"
    /\ ~MaintenanceFlag
    /\ resolveManagedPath(fsReply.raw, FALSE).ok
    /\ fsReply.status = 400

(***************************************************************************)
(* The install requests and the install registry on their own, with        *)
(* malformed request bodies among the requests                             *)
(***************************************************************************)

InstallRequestBodies == {"invalid", "missing", "valid"}

\* The number of install jobs the requests of InstallSpec create
MaxInstalls == 1

\* The API key is missing only where maintenance mode is off
InstallEnvs ==
    { e \in [MAINTENANCE_MODE : {NULL, STR_true, STR_false}, FILE_MANAGER_ROOTS : {NULL},
             AWS_CREDENTIALS : {TRUE}, CURSEFORGE_API_KEY : BOOLEAN] :
        e.MAINTENANCE_MODE = STR_true => e.CURSEFORGE_API_KEY }

InstallInit ==
    /\ env \in InstallEnvs
    /\ KeyIdle
    /\ FsIdle
    /\ JobsIdle
    /\ TransferIdle

\* POST /modpack/install/modrinth and POST /modpack/install/curseforge
PostModpackInstall ==
    \E source \in ModpackSources, body \in InstallRequestBodies :
      /\ body = "valid" => Cardinality(DOMAIN modpackJobs) < MaxInstalls
      /\ handleModpackInstall(source, body,
            Cardinality({id \in DOMAIN modpackJobs : modpackJobs[id].source = source}) + 1)

InstallNext ==
    \/ PostModpackInstall
    \/ InstallTempDirMade
    \/ InstallStageDone
    \/ InstallCleanedUp

InstallSpec == InstallInit /\ [][InstallNext]_vars

\* C12: while the maintenance flag is not true, an install request of either
\* provider is answered 400 at once, with the maintenance-required message
\* when its payload is well formed, and it creates no job and starts no
\* pipeline: the install registry stays as it was.
C12_InstallNeedsMaintenance ==
    /\ [][(~MaintenanceFlag /\ response'.kind \in {"install-refused", "install-start"})
            => /\ response'.kind = "install-refused"
               /\ response'.status = 400
               /\ response'.payload = "valid" => response'.error = MsgMaintenance
               /\ modpackJobs' = modpackJobs
               /\ modpackTasks' = modpackTasks
               /\ modpackLog' = modpackLog]_vars
    /\ [](~MaintenanceFlag => modpackJobs = EmptyMap /\ modpackTasks = EmptyMap)

\* C12 witness: with the flag not true, a well-formed CurseForge request was
\* refused with the maintenance message although the API key is missing too.
C12_Witness ==
    /\ ~MaintenanceFlag
    /\ ~env.CURSEFORGE_API_KEY
    /\ response.kind = "install-refused"
    /\ response.source = STR_curseforge
    /\ response.payload = "valid"
    /\ response.error = MsgMaintenance

(***************************************************************************)
(* handleRestore: a restore request from its entry to its response, one    *)
(* action per await.  Restore requests run concurrently.                   *)
(***************************************************************************)

\* The number of restore requests
MaxRestores == 2

LARGE_FILE_THRESHOLD == 104857600

STR_backups == <<"b", "a", "c", "k", "u", "p", "s", "/">>

\* The restore parameter of the requests
RestoreKeys ==
    { STR_backups \o <<"k">>,
      <<".", ".", "/", "k">>,
      STR_backups \o <<".", ".", "/", "k">>,
      <<"k">> }

\* What the HEAD request of the size probe comes back with: a response, with
\* its Content-Length header when it has one, or a rejected fetch
ProbeOutcomes ==
    { [kind |-> "response", status |-> 200, length |-> 0, header |-> FALSE],
      [kind |-> "response", status |-> 200, length |-> LARGE_FILE_THRESHOLD - 1, header |-> TRUE],
      [kind |-> "response", status |-> 200, length |-> LARGE_FILE_THRESHOLD, header |-> TRUE],
      [kind |-> "response", status |-> 404, length |-> 0, header |-> FALSE],
      [kind |-> "response", status |-> 403, length |-> 0, header |-> FALSE],
      [kind |-> "response", status |-> 503, length |-> 0, header |-> FALSE],
      [kind |-> "rejected", status |-> 0, length |-> 0, header |-> FALSE] }

\* A probe that takes every response for the object
ResponseAlwaysOk(r) == TRUE

\* Response.ok
ResponseOk(r) == r.status >= 200 /\ r.status <= 299

\* new Date().toISOString() cut to the second, as the temp file name has it
RestoreTimestamps == {"20250101_000000"}

\* `/tmp/restore_${timestamp}.tar.gz` (line 1860)
RestoreTempFile(timestamp) == <<"/tmp/restore_", timestamp, ".tar.gz">>

\* The validation that accepts every key
KeyCheckSkipped(backupFilename) == FALSE

\* backupFilename.includes("..") || !backupFilename.startsWith("backups/")
\* (line 1808)
InvalidBackupFilename(backupFilename) ==
    Includes(backupFilename, <<".", ".">>) \/ ~StartsWith(backupFilename, STR_backups)

\* The catch block of handleRestore (lines 1975-1985)
RestoreFailed(message) ==
    [status |-> 500, body |-> [error |-> <<"Restore failed: ">> \o message]]

\* A finally block that leaves the counter as it is
RestoreFinallySkipped(count) == count

\* finally { this.activeRestores-- } (lines 1986-1989)
RestoreFinally(count) == count - 1

\* A run of handleRestore that returns or throws: the response is reply, and
\* the finally block has run
RestoreReturns(id, run, reply) ==
    /\ restores' = MapSet(restores, id, [run EXCEPT !.pc = "done", !.reply = reply])
    /\ activeRestores' = RestoreFinally(activeRestores)

\* A run of handleRestore that goes on to its next await
RestoreAwaits(id, run) ==
    /\ restores' = MapSet(restores, id, run)
    /\ activeRestores' = activeRestores

\* handleRestore(pathname, backupFilename) up to its first await (lines
\* 1786-1829)
handleRestore(pathname, backupFilename) ==
    LET id  == restoreCount + 1
        run == [pc |-> "head",
                directory |-> IF StartsWith(pathname, <<"/">>) THEN pathname
                              ELSE <<"/">> \o pathname,
                backupFilename |-> backupFilename,
                probe |-> NONE, fileSize |-> 0, tempFile |-> NULL,
                downloadedSize |-> 0, calls |-> <<>>, reply |-> NONE]
    IN  /\ restoreCount < MaxRestores
        /\ restoreCount' = id
        /\ IF ~env.AWS_CREDENTIALS
           THEN /\ restores' = MapSet(restores, id,
                      [run EXCEPT !.pc = "done",
                                  !.reply = RestoreFailed(
                                      <<"Missing AWS credentials in environment">>)])
                /\ activeRestores' = RestoreFinally(activeRestores + 1)
           ELSE IF InvalidBackupFilename(backupFilename)
           THEN /\ restores' = MapSet(restores, id,
                      [run EXCEPT !.pc = "done",
                                  !.reply = [status |-> 400,
                                             body |-> [error |-> <<"Invalid backup filename">>]]])
                /\ activeRestores' = RestoreFinally(activeRestores + 1)
           ELSE /\ restores' = MapSet(restores, id, [run EXCEPT !.calls = <<"HEAD">>])
                /\ activeRestores' = activeRestores + 1
        /\ UNCHANGED <<env, keyVars, fsVars, jobVars, downloadVars, fileVars, listVars>>

\* GET <pathname>?restore=<backupFilename> (lines 834-835)
GetRestore ==
    \E backupFilename \in RestoreKeys :
        handleRestore(STR_data \o <<"/", "w", "o", "r", "l", "d">>, backupFilename)

\* A choice that sends a file of exactly the threshold down the single fetch
UsesChunkedPathAbove(fileSize) == fileSize > LARGE_FILE_THRESHOLD

\* fileSize >= LARGE_FILE_THRESHOLD (line 1865)
UsesChunkedPath(fileSize) == fileSize >= LARGE_FILE_THRESHOLD

\* await fetch(headUrl, {method: "HEAD"}) settles (lines 1829-1863)
RestoreProbed ==
    \E id \in DOMAIN restores, outcome \in ProbeOutcomes, timestamp \in RestoreTimestamps :
        LET run    == [restores[id] EXCEPT !.probe = outcome]
            size   == IF outcome.header THEN outcome.length ELSE 0
            probed == [run EXCEPT !.fileSize = size,
                                  !.tempFile = RestoreTempFile(timestamp)]
        IN  /\ restores[id].pc = "head"
            /\ restoreCount' = restoreCount
            /\ IF outcome.kind = "rejected"
               THEN RestoreReturns(id, run, RestoreFailed(<<"Unable to connect">>))
               ELSE IF ~ResponseOk(outcome)
               THEN RestoreReturns(id, run,
                        [status |-> 404,
                         body |-> [error |-> <<"Backup not found: ", "backupFilename">>]])
               ELSE IF UsesChunkedPath(size)
               THEN RestoreAwaits(id, [probed EXCEPT !.pc = "large",
                                                     !.calls = Append(@, "downloadLargeFile")])
               ELSE RestoreAwaits(id, [probed EXCEPT !.pc = "fetch",
                                                     !.calls = Append(@, "GET")])
            /\ UNCHANGED <<env, keyVars, fsVars, jobVars, downloadVars, fileVars, listVars>>

\* A step of a restore run leaves the job registries alone
RestoreFrame ==
    /\ restoreCount' = restoreCount
    /\ UNCHANGED <<env, keyVars, fsVars, backupJobs, backupTasks, backupLog, backupRuns,
                   backupCount, modpackJobs, modpackTasks, modpackLog, response,
                   downloadVars, fileVars, listVars>>

\* await s3File.arrayBuffer() settles (lines 1880-1882)
RestoreFetched ==
    \E id \in DOMAIN restores, ok \in BOOLEAN :
        /\ restores[id].pc = "fetch"
        /\ IF ok
           THEN RestoreAwaits(id, [restores[id] EXCEPT !.pc = "write"])
           ELSE RestoreReturns(id, restores[id], RestoreFailed(<<"NoSuchKey">>))
        /\ UNCHANGED <<tmpFiles, unlinked>>
        /\ RestoreFrame

\* await Bun.write(tempFile, fileData) settles (line 1887)
RestoreWritten ==
    \E id \in DOMAIN restores, ok \in BOOLEAN :
        /\ restores[id].pc = "write"
        /\ IF ok
           THEN RestoreAwaits(id, [restores[id] EXCEPT !.pc = "stat"])
           ELSE RestoreReturns(id, restores[id], RestoreFailed(<<"ENOSPC: no space left on device, write">>))
        /\ tmpFiles' = tmpFiles \cup {restores[id].tempFile}
        /\ unlinked' = unlinked
        /\ RestoreFrame

\* await downloadLargeFile(...) settles (line 1872); a failed download may
\* leave the destination file
RestoreLargeDownloaded ==
    \E id \in DOMAIN restores, ok \in BOOLEAN, written \in BOOLEAN :
        /\ restores[id].pc = "large"
        /\ ok => written
        /\ IF ok
           THEN RestoreAwaits(id, [restores[id] EXCEPT !.pc = "stat"])
           ELSE RestoreReturns(id, restores[id],
                    RestoreFailed(<<"Failed to download part ", "2", "/", "3", " after ",
                                    "3", " attempts">>))
        /\ tmpFiles' = IF written THEN tmpFiles \cup {restores[id].tempFile} ELSE tmpFiles
        /\ unlinked' = unlinked
        /\ RestoreFrame

\* A restore that throws when the sizes differ
SizeMismatchIsFatal(downloadedSize, fileSize) == downloadedSize # fileSize

\* downloadedSize !== fileSize only logs a warning (lines 1903-1907): it
\* never throws
SizeMismatchThrows(downloadedSize, fileSize) == FALSE

\* await restoredFile.stat() settles (lines 1897-1907): a size that differs
\* from the probed size is logged
RestoreStatDone ==
    \E id \in DOMAIN restores, ok \in BOOLEAN, same \in BOOLEAN :
        LET run == restores[id]
        IN  /\ run.pc = "stat"
            /\ ~ok => same
            /\ IF ok /\ SizeMismatchThrows(IF same THEN run.fileSize ELSE run.fileSize + 1,
                                            run.fileSize)
               THEN RestoreReturns(id, [run EXCEPT !.downloadedSize = run.fileSize + 1,
                                                   !.calls = Append(@, "stat")],
                                   RestoreFailed(<<"File size mismatch">>))
               ELSE IF ok
               THEN RestoreAwaits(id, [run EXCEPT !.pc = "mkdir",
                                                  !.calls = Append(@, "stat"),
                                                  !.downloadedSize = IF same THEN run.fileSize
                                                                     ELSE run.fileSize + 1])
               ELSE RestoreReturns(id, run, RestoreFailed(<<"ENOENT: no such file or directory, stat">>))
            /\ UNCHANGED <<tmpFiles, unlinked>>
            /\ RestoreFrame

\* await ensureDirectory(parentDir) settles, tar -xzf is spawned (lines
\* 1910-1934)
RestoreParentMade ==
    \E id \in DOMAIN restores, ok \in BOOLEAN :
        /\ restores[id].pc = "mkdir"
        /\ IF ok
           THEN RestoreAwaits(id, [restores[id] EXCEPT !.pc = "tar", !.calls = Append(@, "tar")])
           ELSE RestoreReturns(id, restores[id],
                    RestoreFailed(<<"Failed to create directory ", "parentDir", ": ", "stderr">>))
        /\ UNCHANGED <<tmpFiles, unlinked>>
        /\ RestoreFrame

\* await tarProc.exited settles (lines 1936-1953): on exit code 0 unlink is
\* called on the temp file
RestoreTarExited ==
    \E id \in DOMAIN restores, tarExit \in {0, 2} :
        /\ restores[id].pc = "tar"
        /\ IF tarExit = 0
           THEN RestoreAwaits(id, [restores[id] EXCEPT !.pc = "unlink"])
           ELSE RestoreReturns(id, restores[id],
                    RestoreFailed(<<"tar extraction failed with exit code ", "2", ": ", "stderr">>))
        /\ tmpFiles' = tmpFiles
        /\ unlinked' = IF tarExit = 0 THEN unlinked \cup {restores[id].tempFile} ELSE unlinked
        /\ RestoreFrame

\* await unlink(tempFile) settles; a failure is logged (lines 1952-1974)
RestoreUnlinkDone ==
    \E id \in DOMAIN restores, exitCode \in {0, 1} :
        LET run == restores[id]
        IN  /\ run.pc = "unlink"
            /\ RestoreReturns(id, run,
                   [status |-> 200,
                    body |-> [success |-> TRUE, restored_from |-> run.backupFilename,
                              restored_to |-> run.directory, size |-> run.downloadedSize,
                              note |-> "complete restore"]])
            /\ tmpFiles' = IF exitCode = 0 THEN tmpFiles \ {run.tempFile} ELSE tmpFiles
            /\ unlinked' = unlinked
            /\ RestoreFrame

RestoreEnvs ==
    { DefaultEnv, [DefaultEnv EXCEPT !.AWS_CREDENTIALS = FALSE] }

RestoreInit ==
    /\ env \in RestoreEnvs
    /\ KeyIdle
    /\ FsIdle
    /\ JobsIdle
    /\ TransferIdle

RestoreNext ==
    \/ GetRestore
    \/ RestoreProbed
    \/ RestoreFetched
    \/ RestoreWritten
    \/ RestoreLargeDownloaded
    \/ RestoreStatDone
    \/ RestoreParentMade
    \/ RestoreTarExited
    \/ RestoreUnlinkDone

RestoreSpec == RestoreInit /\ [][RestoreNext]_vars

(***************************************************************************)
(* Properties of restore requests                                          *)
(***************************************************************************)

\* The key has a ".." in it or is not in the backups/ namespace
KeyOutsideNamespace(key) ==
    \/ \E i \in 1..(Len(key) - 1) : key[i] = "." /\ key[i + 1] = "."
    \/ Len(key) < Len(STR_backups)
    \/ SubSeq(key, 1, Len(STR_backups)) # STR_backups

\* C13 as the specification states it: a restore whose key has ".." in it or
\* does not start with "backups/" is always answered 400, and no network
\* call, download or extraction is made for it.
C13_InvalidKeyAlways400 ==
    \A id \in DOMAIN restores :
        KeyOutsideNamespace(restores[id].backupFilename)
            => /\ restores[id].pc = "done"
               /\ restores[id].reply.status = 400
               /\ restores[id].calls = <<>>

\* C13, corrected: a restore whose key has ".." in it or does not start with
\* "backups/" returns at once without a network call, a download or an
\* extraction; its response is 400 "Invalid backup filename" when the AWS
\* credentials are configured and the 500 of the missing credentials when
\* they are not, since the client is created before the key is validated.
C13_InvalidKeyRejected ==
    \A id \in DOMAIN restores :
        KeyOutsideNamespace(restores[id].backupFilename)
            => /\ restores[id].pc = "done"
               /\ restores[id].calls = <<>>
               /\ restores[id].tempFile = NULL
               /\ restores[id].reply =
                    IF env.AWS_CREDENTIALS
                    THEN [status |-> 400, body |-> [error |-> <<"Invalid backup filename">>]]
                    ELSE [status |-> 500,
                          body |-> [error |-> <<"Restore failed: ",
                                                "Missing AWS credentials in environment">>]]

\* C13 witness: with credentials configured, a key that starts with
\* "backups/" and climbs out of it was answered 400.
C13_Witness ==
    \E id \in DOMAIN restores :
        /\ env.AWS_CREDENTIALS
        /\ restores[id].backupFilename = STR_backups \o <<".", ".", "/", "k">>
        /\ restores[id].reply # NONE
        /\ restores[id].reply.status = 400

\* C14 as the specification states it: a restore answers 404 only when the
\* size probe found the object absent, and answers 500 when the probe failed
\* in another way (another error status, or a transport failure).
C14_NotFoundOnlyWhenAbsent ==
    \A id \in DOMAIN restores :
        LET run == restores[id]
        IN  (run.pc = "done" /\ run.probe # NONE)
                => /\ run.reply.status = 404
                      => (run.probe.kind = "response" /\ run.probe.status = 404)
                   /\ (run.probe.kind = "rejected"
                         \/ (~ResponseOk(run.probe) /\ run.probe.status # 404))
                      => run.reply.status = 500

(***************************************************************************)
(* downloadLargeFile and downloadRangeWithRetry: one chunked download, one *)
(* action per await.  The content of the object is not modelled byte by    *)
(* byte: data is the extent of the object it holds, [from, to] inclusive.  *)
(***************************************************************************)

MAX_RETRIES == 3

DOWNLOAD_CHUNK_SIZE == 52428800

MAX_CONCURRENT_DOWNLOADS == 5

\* The number of failures the network and the disk produce in one download
MaxFaults == 4

\* fileSize: two chunks exactly (the threshold), two chunks and one byte, and
\* six parts, which makes two batches
DownloadSizes == {104857600, 104857601, 262144007}

Min(a, b) == IF a <= b THEN a ELSE b

\* A count that is one too many for a whole number of chunks
NumPartsFloor(fileSize) == fileSize \div DOWNLOAD_CHUNK_SIZE + 1

\* Math.ceil(fileSize / DOWNLOAD_CHUNK_SIZE) (line 371)
NumParts(fileSize) == (fileSize + DOWNLOAD_CHUNK_SIZE - 1) \div DOWNLOAD_CHUNK_SIZE

\* An end one byte too far
TaskEndInclusive(start, fileSize) == Min(start + DOWNLOAD_CHUNK_SIZE, fileSize - 1)

\* Math.min(start + DOWNLOAD_CHUNK_SIZE - 1, fileSize - 1) (line 389)
TaskEnd(start, fileSize) == Min(start + DOWNLOAD_CHUNK_SIZE - 1, fileSize - 1)

\* downloadTasks[i] (lines 387-396)
DownloadTask(i, fileSize) ==
    [partNumber |-> i + 1,
     start |-> i * DOWNLOAD_CHUNK_SIZE,
     end |-> TaskEnd(i * DOWNLOAD_CHUNK_SIZE, fileSize),
     partIndex |-> i]

\* The body of a range response that holds the bytes asked for, and one that
\* is a byte short
RangeBytes(start, end) == [from |-> start, to |-> end]
ShortBytes(start, end) == [from |-> start, to |-> end - 1]

\* One attempt too many
RetryThroughLast(attempt) == attempt <= MAX_RETRIES

\* attempt < MAX_RETRIES (line 341): another attempt follows
RetryFollows(attempt) == attempt < MAX_RETRIES

\* The Error of downloadRangeWithRetry (lines 351-353) and other errors
ExhaustedError(partNumber, totalParts, cause) ==
    [template |-> "Failed to download part ${partNumber}/${totalParts} after ${MAX_RETRIES} attempts: ${lastError?.message}",
     partNumber |-> partNumber, totalParts |-> totalParts, attempts |-> MAX_RETRIES,
     cause |-> cause]

OtherError(message) ==
    [template |-> message, partNumber |-> 0, totalParts |-> 0, attempts |-> 0,
     cause |-> message]

\* The part numbers of the batch that starts at downloadTasks[i] (line 430)
BatchOf(i, numParts) == (i + 1)..Min(i + MAX_CONCURRENT_DOWNLOADS, numParts)

\* A batch that counts as settled when one of its parts is
BatchAnyWritten(parts, batch) == \E p \in batch : parts[p].pc = "done"

\* await Promise.all(batchPromises) is fulfilled (line 442)
BatchAllWritten(parts, batch) == \A p \in batch : parts[p].pc = "done"

\* batch.map(task => downloadPart(task)) (line 441): each downloadPart runs
\* to the fetch of its first attempt
LaunchBatch(parts, batch) ==
    [p \in DOMAIN parts |->
        IF p \in batch THEN [parts[p] EXCEPT !.pc = "fetch", !.attempt = 1] ELSE parts[p]]

RECURSIVE Ascending(_, _)
Ascending(from, to) == IF from > to THEN <<>> ELSE <<from>> \o Ascending(from + 1, to)

DownloadFrame ==
    UNCHANGED <<env, keyVars, fsVars, jobVars, restoreVars, fileVars, listVars>>

\* downloadLargeFile(s3Client, key, tempFile, fileSize) up to its first
\* await (lines 359-442)
downloadLargeFile(fileSize) ==
    LET numParts == NumParts(fileSize)
        first    == BatchOf(0, numParts)
        idle     == [p \in 1..numParts |->
                        [pc |-> "none", attempt |-> 0, data |-> NONE, received |-> NONE,
                         lastError |-> NULL]]
    IN  /\ dl = NONE
        /\ dl' = [fileSize |-> fileSize, numParts |-> numParts, pc |-> "batch",
                  batch |-> 0, recon |-> 0, opened |-> FALSE, error |-> NONE]
        /\ dlParts' = LaunchBatch(idle, first)
        /\ dlFiles' = [p \in 1..numParts |-> NONE]
        /\ dlTarget' = <<>>
        /\ dlFaults' = 0
        /\ dlStarted' = Ascending(1, Min(MAX_CONCURRENT_DOWNLOADS, numParts))
        /\ DownloadFrame

StartDownload == \E fileSize \in DownloadSizes : downloadLargeFile(fileSize)

\* The download is rejected with error unless it has been already
DownloadThrows(error) ==
    IF dl.pc \in {"thrown", "returned"} THEN dl ELSE [dl EXCEPT !.pc = "thrown", !.error = error]

\* The catch block of an attempt (lines 332-346) and the throw after the
\* loop (lines 351-353): the parts and the download after attempt of part p
\* failed with cause.  lastError is read after the last attempt only, and
\* is recorded there.
AttemptFailedWith(parts, p, cause) ==
    /\ dlFaults < MaxFaults
    /\ dlFaults' = dlFaults + 1
    /\ IF RetryFollows(parts[p].attempt)
       THEN /\ dlParts' = [parts EXCEPT ![p].pc = "delay"]
            /\ dl' = dl
       ELSE /\ dlParts' = [parts EXCEPT ![p].pc = "failed", ![p].lastError = cause]
            /\ dl' = DownloadThrows(ExhaustedError(p, dl.numParts, cause))
    /\ UNCHANGED <<dlFiles, dlTarget, dlStarted>>

AttemptFailed(p, cause) == AttemptFailedWith(dlParts, p, cause)

\* await fetch(url, {headers: {Range}}) settles (lines 295-310)
PartFetched ==
    \E p \in DOMAIN dlParts, outcome \in {"ok", "Unable to connect", "HTTP 503"} :
        /\ dlParts[p].pc = "fetch"
        /\ IF outcome = "ok"
           THEN /\ dlParts' = [dlParts EXCEPT ![p].pc = "body"]
                /\ UNCHANGED <<dl, dlFiles, dlTarget, dlFaults, dlStarted>>
           ELSE AttemptFailed(p, <<outcome>>)
        /\ DownloadFrame

\* The number of bytes of data
ByteLength(data) == IF data.to < data.from THEN 0 ELSE data.to - data.from + 1

\* An attempt that fails when the length is not the length of the range
LengthMustMatch(data, rangeSize) == ByteLength(data) # rangeSize

\* data.byteLength !== rangeSize only logs a warning (lines 324-329): the
\* attempt does not fail
LengthMismatchThrows(data, rangeSize) == FALSE

\* await response.arrayBuffer() settles (lines 316-331): the data is
\* returned whatever its length
PartBodyRead ==
    \E p \in DOMAIN dlParts, outcome \in {"exact", "short", "aborted"} :
        LET task == DownloadTask(p - 1, dl.fileSize)
        IN  /\ dlParts[p].pc = "body"
            /\ CASE outcome = "exact" ->
                      /\ dlParts' = [dlParts EXCEPT ![p].pc = "write",
                                                    ![p].data = RangeBytes(task.start, task.end),
                                                    ![p].received = RangeBytes(task.start,
                                                                               task.end)]
                      /\ UNCHANGED <<dl, dlFiles, dlTarget, dlFaults, dlStarted>>
                 [] outcome = "short" ->
                      IF LengthMismatchThrows(ShortBytes(task.start, task.end),
                                              task.end - task.start + 1)
                      THEN AttemptFailedWith(
                               [dlParts EXCEPT ![p].received = ShortBytes(task.start, task.end)],
                               p, <<"Size mismatch">>)
                      ELSE /\ dlFaults < MaxFaults
                           /\ dlFaults' = dlFaults + 1
                           /\ dlParts' = [dlParts EXCEPT ![p].pc = "write",
                                                         ![p].data = ShortBytes(task.start,
                                                                                task.end),
                                                         ![p].received = ShortBytes(task.start,
                                                                                    task.end)]
                           /\ UNCHANGED <<dl, dlFiles, dlTarget, dlStarted>>
                 [] OTHER -> AttemptFailed(p, <<"The connection was closed">>)
            /\ DownloadFrame

\* The delay before the next attempt is over (lines 340-345)
PartDelayed ==
    \E p \in DOMAIN dlParts :
        /\ dlParts[p].pc = "delay"
        /\ dlParts' = [dlParts EXCEPT ![p].pc = "fetch", ![p].attempt = @ + 1]
        /\ UNCHANGED <<dl, dlFiles, dlTarget, dlFaults, dlStarted>>
        /\ DownloadFrame

\* await Bun.write(task.tempFile, data) settles (line 414), and with the
\* last part of the batch the await of Promise.all: the next batch is
\* launched, or the first part file is read (lines 442-462)
PartWritten ==
    \E p \in DOMAIN dlParts, ok \in BOOLEAN :
        LET written == [dlParts EXCEPT ![p].pc = "done"]
            batch   == BatchOf(dl.batch, dl.numParts)
            next    == dl.batch + MAX_CONCURRENT_DOWNLOADS
        IN  /\ dlParts[p].pc = "write"
            /\ IF ~ok
               THEN /\ dlFaults < MaxFaults
                    /\ dlFaults' = dlFaults + 1
                    /\ dlParts' = [dlParts EXCEPT ![p].pc = "failed"]
                    /\ dl' = DownloadThrows(OtherError("ENOSPC: no space left on device, write"))
                    /\ UNCHANGED <<dlFiles, dlStarted>>
               ELSE /\ dlFaults' = dlFaults
                    /\ dlFiles' = [dlFiles EXCEPT ![p] = dlParts[p].data]
                    /\ IF dl.pc = "batch" /\ p \in batch /\ BatchAllWritten(written, batch)
                       THEN IF next < dl.numParts
                            THEN /\ dl' = [dl EXCEPT !.batch = next]
                                 /\ dlParts' = LaunchBatch(written, BatchOf(next, dl.numParts))
                                 /\ dlStarted' = dlStarted
                                       \o Ascending(next + 1,
                                                    Min(next + MAX_CONCURRENT_DOWNLOADS,
                                                        dl.numParts))
                            ELSE /\ dl' = [dl EXCEPT !.pc = "recon-read", !.recon = 0,
                                                    !.opened = TRUE]
                                 /\ dlParts' = written
                                 /\ dlStarted' = dlStarted
                       ELSE /\ dl' = dl
                            /\ dlParts' = written
                            /\ dlStarted' = dlStarted
            /\ dlTarget' = dlTarget
            /\ DownloadFrame


\* await Bun.file(partFile).arrayBuffer() settles and the data is handed to
\* the writer of the target (lines 465-467)
ReconPartRead ==
    \E ok \in BOOLEAN :
        LET p == dl.recon + 1
        IN  /\ dl # NONE
            /\ dl.pc = "recon-read"
            /\ IF ok /\ dlFiles[p] # NONE
               THEN /\ dl' = [dl EXCEPT !.pc = "recon-unlink"]
                    /\ dlTarget' = Append(dlTarget, dlFiles[p])
                    /\ dlFaults' = dlFaults
               ELSE /\ dlFaults < MaxFaults
                    /\ dlFaults' = dlFaults + 1
                    /\ dl' = DownloadThrows(OtherError("ENOENT: no such file or directory, open"))
                    /\ dlTarget' = dlTarget
            /\ UNCHANGED <<dlParts, dlFiles, dlStarted>>
            /\ DownloadFrame

\* await unlink(partFile) settles, its failure is logged only; the next
\* part file is read, or the writer is ended (lines 473-481)
ReconPartUnlinked ==
    \E ok \in BOOLEAN :
        LET p == dl.recon + 1
        IN  /\ dl # NONE
            /\ dl.pc = "recon-unlink"
            /\ IF ok
               THEN /\ dlFiles' = [dlFiles EXCEPT ![p] = NONE]
                    /\ dlFaults' = dlFaults
               ELSE /\ dlFaults < MaxFaults
                    /\ dlFaults' = dlFaults + 1
                    /\ dlFiles' = dlFiles
            /\ dl' = IF p < dl.numParts
                     THEN [dl EXCEPT !.pc = "recon-read", !.recon = p]
                     ELSE [dl EXCEPT !.pc = "end"]
            /\ UNCHANGED <<dlParts, dlTarget, dlStarted>>
            /\ DownloadFrame

\* await targetFile.end() settles and downloadLargeFile returns (line 481)
TargetEnded ==
    \E ok \in BOOLEAN :
        /\ dl # NONE
        /\ dl.pc = "end"
        /\ IF ok
           THEN /\ dl' = [dl EXCEPT !.pc = "returned"]
                /\ dlFaults' = dlFaults
           ELSE /\ dlFaults < MaxFaults
                /\ dlFaults' = dlFaults + 1
                /\ dl' = DownloadThrows(OtherError("ENOSPC: no space left on device, write"))
        /\ UNCHANGED <<dlParts, dlFiles, dlTarget, dlStarted>>
        /\ DownloadFrame

DownloadInit ==
    /\ env = DefaultEnv
    /\ KeyIdle
    /\ FsIdle
    /\ JobsIdle
    /\ TransferIdle

DownloadNext ==
    \/ StartDownload
    \/ PartFetched
    \/ PartBodyRead
    \/ PartDelayed
    \/ PartWritten
    \/ ReconPartRead
    \/ ReconPartUnlinked
    \/ TargetEnded

DownloadSpec == DownloadInit /\ [][DownloadNext]_vars


(***************************************************************************)
(* Properties of the chunked download.                                     *)
(***************************************************************************)

\* The bytes of the target, written extent after extent, are the bytes of
\* the object from the first to the last
TargetIsObject(target, fileSize) ==
    /\ Len(target) > 0
    /\ target[1].from = 0
    /\ target[Len(target)].to = fileSize - 1
    /\ \A i \in 1..Len(target) : target[i].from <= target[i].to
    /\ \A i \in 1..(Len(target) - 1) : target[i + 1].from = target[i].to + 1

\* Every range request of the download has returned the bytes it asked for
RangesAsRequested ==
    \A p \in DOMAIN dlParts :
        LET task == DownloadTask(p - 1, dl.fileSize)
        IN  dlParts[p].data = RangeBytes(task.start, task.end)

\* C15: a chunked download of an object of LARGE_FILE_THRESHOLD bytes or
\* more that has returned, all of whose range requests returned the bytes
\* they asked for, has produced a file with the bytes of the object, at the
\* threshold and with a last chunk of any length
C15_ChunkedDownloadIsObject ==
    (dl # NONE /\ dl.pc = "returned" /\ RangesAsRequested)
        => /\ dl.fileSize >= LARGE_FILE_THRESHOLD
           /\ TargetIsObject(dlTarget, dl.fileSize)
           /\ Len(dlTarget) = dl.numParts

\* A returned download of an object whose last chunk is shorter than the
\* others, one of whose parts was fetched again
C15_Witness ==
    /\ dl # NONE
    /\ dl.pc = "returned"
    /\ RangesAsRequested
    /\ dl.fileSize % DOWNLOAD_CHUNK_SIZE # 0
    /\ \E p \in DOMAIN dlParts : dlParts[p].attempt > 1

\* Part p has used all its attempts
Exhausted(p) == dlParts[p].pc = "failed" /\ dlParts[p].lastError # NULL

C16_LastAttemptSucceeds ==
    /\ dl # NONE
    /\ dl.pc = "returned"
    /\ \E p \in DOMAIN dlParts : dlParts[p].attempt = MAX_RETRIES

InFlight == {p \in DOMAIN dlParts : dlParts[p].pc \in {"fetch", "body", "delay", "write"}}

Settled(p) == dlParts[p].pc \in {"done", "failed"}

\* The batch of part p, counted from 0
BatchIndex(p) == (p - 1) \div MAX_CONCURRENT_DOWNLOADS

\* C17: at most MAX_CONCURRENT_DOWNLOADS parts of a download are in flight;
\* when a part of a batch has started every part of the batches before it
\* has settled (indeed has been written); the parts start in ascending
\* order
C17_BatchesInOrder ==
    dl # NONE =>
        /\ Cardinality(InFlight) <= MAX_CONCURRENT_DOWNLOADS
        /\ \A p, q \in DOMAIN dlParts :
              (dlParts[p].pc # "none" /\ BatchIndex(q) < BatchIndex(p))
                  => Settled(q) /\ dlParts[q].pc = "done"
        /\ \A i, j \in DOMAIN dlStarted : i < j => dlStarted[i] < dlStarted[j]
        /\ \A p \in DOMAIN dlParts :
              dlParts[p].pc # "none" <=> \E i \in DOMAIN dlStarted : dlStarted[i] = p

\* A part of the second batch is in flight
C17_Witness ==
    /\ dl # NONE
    /\ \E p \in InFlight : BatchIndex(p) = 1
    /\ Len(dlStarted) > MAX_CONCURRENT_DOWNLOADS


(***************************************************************************)
(* installModrinthFiles and installCurseforgeFiles: the file loop of one   *)
(* install job, entry by entry.                                            *)
(***************************************************************************)

STR_dataMods == STR_data \o <<"/", "m", "o", "d", "s">>
STR_modsA    == <<"m", "o", "d", "s", "/", "a">>
STR_dotjar   == <<".", "j", "a", "r">>

\* path.posix.join(a, b): the non-empty arguments joined by "/", normalized
PosixJoin(a, b) ==
    IF b = <<>> THEN PosixNormalize(a) ELSE PosixNormalize(a \o <<"/">> \o b)

\* s.replace(/\\/g, '/')
BackslashesToSlashes(s) == [i \in DOMAIN s |-> IF s[i] = "\\" THEN "/" ELSE s[i]]

\* s.replace(/^\/+/g, '')
RECURSIVE StripLeadingSlashes(_)
StripLeadingSlashes(s) ==
    IF s # <<>> /\ Head(s) = "/" THEN StripLeadingSlashes(Tail(s)) ELSE s

\* !normalized || normalized.startsWith('..') (line 1336)
UnsafePath(normalized) == normalized = <<>> \/ StartsWith(normalized, <<".", ".">>)

\* sanitizeRelativePath(relPath) (lines 1334-1340): the path returned, or
\* the Error thrown
sanitizeRelativePath(relPath) ==
    LET normalized == StripLeadingSlashes(PosixNormalize(relPath))
    IN  IF UnsafePath(normalized)
        THEN [thrown |-> Thrown(<<"Unsafe path in manifest: ">> \o relPath), value |-> <<>>]
        ELSE [thrown |-> NONE, value |-> normalized]

\* crypto.subtle.digest of the bytes downloaded, through bufferToHex: lower
\* case hexadecimal digits, different for different bytes
Sha1Hex(bytes)   == IF bytes = "jar" THEN <<"a", "9">> ELSE <<"0", "c">>
Sha512Hex(bytes) == IF bytes = "jar" THEN <<"5", "e", "f">> ELSE <<"7", "1", "d">>

\* A comparison that accepts every digest
HashDiffersNever(hex, declared) == FALSE

\* hex !== hashes.sha1.toLowerCase() (lines 1506 and 1513)
HashDiffers(hex, declared) == hex # ToLowerCase(declared)

\* verifyHash(buffer, hashes, label) (lines 1499-1517): the Error thrown,
\* NONE when it returns; a hash that is absent or "" is not checked
verifyHash(bytes, hashes, label) ==
    IF hashes = NONE THEN NONE
    ELSE IF hashes.sha1 # NULL /\ hashes.sha1 # <<>> /\ HashDiffers(Sha1Hex(bytes), hashes.sha1)
    THEN Thrown(<<"SHA-1 mismatch for ">> \o label)
    ELSE IF hashes.sha512 # NULL /\ hashes.sha512 # <<>>
            /\ HashDiffers(Sha512Hex(bytes), hashes.sha512)
    THEN Thrown(<<"SHA-512 mismatch for ">> \o label)
    ELSE NONE

\* The position of a file loop: at an await, returned or thrown
FileLoopAt(pc, index, installed, label, destination, thrown, verified) ==
    [pc |-> pc, index |-> index, installed |-> installed, label |-> label,
     destination |-> destination, thrown |-> thrown, verified |-> verified]

\* The for loop of installModrinthFiles from files[index] to its next await,
\* its return or its throw (lines 1348-1376)
RECURSIVE ModrinthLoop(_, _, _, _)
ModrinthLoop(files, index, installed, verified) ==
    IF index >= Len(files)
    THEN FileLoopAt("returned", index, installed, <<>>, <<>>, NONE, verified)
    ELSE LET fileEntry == files[index + 1]
             normalizedInput ==
                 BackslashesToSlashes(
                     IF fileEntry.path = NULL \/ fileEntry.path = <<>>
                     THEN <<"m", "o", "d", "s", "/", "f", "i", "l", "e", "-">>
                              \o NatToString(index) \o STR_dotjar
                     ELSE fileEntry.path)
             relPath     == sanitizeRelativePath(normalizedInput)
             destination == PosixJoin(STR_data, relPath.value)
         IN  IF fileEntry.unsupported
             THEN ModrinthLoop(files, index + 1, installed, verified)
             ELSE IF relPath.thrown # NONE
             THEN FileLoopAt("thrown", index, installed, <<>>, <<>>, relPath.thrown, verified)
             ELSE IF ~fileEntry.url
             THEN FileLoopAt("thrown", index, installed, relPath.value, destination,
                             Thrown(<<"Missing download URL for ">> \o relPath.value),
                             verified)
             ELSE FileLoopAt("download", index, installed, relPath.value, destination,
                             NONE, verified)

\* A loop that installs the optional entries too
CurseforgeSkipsNone(entry) == FALSE

\* entry.required === false (line 1472)
CurseforgeSkips(entry) == ~entry.required

\* The for loop of installCurseforgeFiles from files[index] to its next
\* await or its return (lines 1470-1496)
RECURSIVE CurseforgeLoop(_, _, _)
CurseforgeLoop(files, index, installed) ==
    IF index >= Len(files)
    THEN FileLoopAt("returned", index, installed, <<>>, <<>>, NONE, <<>>)
    ELSE IF CurseforgeSkips(files[index + 1])
    THEN CurseforgeLoop(files, index + 1, installed)
    ELSE FileLoopAt("metadata", index, installed, <<>>, <<>>, NONE, <<>>)

\* path.posix.join('/data/mods', targetName) (line 1487)
CurseforgeDestination(targetName) == PosixJoin(STR_dataMods, targetName)

\* The rest of installCurseforgeFiles's iteration after the metadata of
\* files[index] has arrived (lines 1483-1488)
CurseforgeTarget(entry, index, installed) ==
    LET fileData   == entry.fileData
        targetName == IF fileData.fileName = NULL \/ fileData.fileName = <<>>
                      THEN NatToString(entry.projectID) \o <<"-">>
                               \o NatToString(entry.fileID) \o STR_dotjar
                      ELSE fileData.fileName
    IN  IF fileData = NONE \/ ~fileData.downloadUrl
        THEN FileLoopAt("thrown", index, installed, <<>>, <<>>,
                        Thrown(<<"CurseForge file ">> \o NatToString(entry.projectID)
                                   \o <<"/">> \o NatToString(entry.fileID)
                                   \o <<" is missing a download URL">>), <<>>)
        ELSE FileLoopAt("download", index, installed, targetName,
                        CurseforgeDestination(targetName), NONE, <<>>)

\* The run of the job goes on after the file loop has moved to loop: at a
\* return the job is completed (lines 1123-1139, 1176-1193), at a throw
\* the finally block is next, else the loop waits with its progress set
FileLoopMoves(id, loop) ==
    LET job  == modpackJobs[id]
        task == modpackTasks[id]
        newJob ==
            CASE loop.pc = "returned" ->
                   [job EXCEPT !.status = "completed",
                               !.progress = [phase |-> "completed",
                                             note |-> "Modpack installation finished"],
                               !.result = [filesInstalled |-> loop.installed,
                                           overridesApplied |-> task.overridesApplied],
                               !.updatedAt = Timestamp]
              [] loop.pc = "thrown" -> job
              [] OTHER ->
                   [job EXCEPT !.progress = [phase |-> "Installing mods",
                                             currentIndex |-> loop.index + 1,
                                             totalFiles |-> Len(manifest.files)],
                               !.updatedAt = Timestamp]
        newTask ==
            CASE loop.pc = "returned" -> [task EXCEPT !.pc = "cleanup"]
              [] loop.pc = "thrown"   -> [task EXCEPT !.pc = "cleanup", !.thrown = loop.thrown]
              [] OTHER                -> task
    IN  /\ fileLoop' = loop
        /\ modpackJobs' = MapSet(modpackJobs, id, newJob)
        /\ modpackTasks' = MapSet(modpackTasks, id, newTask)
        /\ modpackLog' =
             IF newJob.status # job.status
             THEN [modpackLog EXCEPT ![id] = Append(@, newJob.status)]
             ELSE modpackLog
        /\ response' = NoResponse
        /\ UNCHANGED <<env, keyVars, fsVars, restoreVars, downloadVars, listVars, backupJobs,
                       backupTasks, backupLog, backupRuns, backupCount, tmpFiles,
                       unlinked, manifest>>

\* The job whose file loop this is
FileLoopJob == CHOOSE id \in DOMAIN modpackTasks : TRUE

\* installModrinthFiles(manifest, job) / installCurseforgeFiles(manifest,
\* job) is called and runs to its first await (lines 1342-1367, 1463-1482)
InstallFilesBegin ==
    /\ manifest # NONE
    /\ fileLoop = NONE
    /\ modpackTasks[FileLoopJob].pc = "files"
    /\ dataWrites' = dataWrites
    /\ filesWritten' = filesWritten
    /\ FileLoopMoves(FileLoopJob,
          IF manifest.source = STR_modrinth
          THEN ModrinthLoop(manifest.files, 0, 0, <<>>)
          ELSE CurseforgeLoop(manifest.files, 0, 0))

\* await this.fetchCurseforgeFile(entry.projectID, entry.fileID) settles
\* (lines 1482-1488)
CurseforgeFileFetched ==
    \E ok \in BOOLEAN :
        /\ fileLoop # NONE
        /\ fileLoop.pc = "metadata"
        /\ dataWrites' = dataWrites
        /\ filesWritten' = filesWritten
        /\ FileLoopMoves(FileLoopJob,
              IF ok
              THEN CurseforgeTarget(manifest.files[fileLoop.index + 1], fileLoop.index,
                                    fileLoop.installed)
              ELSE [fileLoop EXCEPT !.pc = "thrown",
                       !.thrown = Thrown(<<"CurseForge API request failed (", "503", ")">>)])

\* await this.downloadFileToPath(url, destination, ...) settles (lines
\* 1270-1290): the bytes are at the destination, or nothing was written.
\* verifyHash returns at once when there are no hashes.
InstallFileDownloaded ==
    \E ok \in BOOLEAN :
        LET entry == manifest.files[fileLoop.index + 1]
        IN  /\ fileLoop # NONE
            /\ fileLoop.pc = "download"
            /\ dataWrites' = IF ok THEN dataWrites \cup {fileLoop.destination}
                             ELSE dataWrites
            /\ filesWritten' = IF ok THEN Append(filesWritten, fileLoop.index)
                               ELSE filesWritten
            /\ FileLoopMoves(FileLoopJob,
                  IF ~ok
                  THEN [fileLoop EXCEPT !.pc = "thrown",
                           !.thrown = Thrown(<<"Failed to download ", "url", " (",
                                               "404 Not Found", ")">>)]
                  ELSE IF manifest.source = STR_curseforge
                  THEN CurseforgeLoop(manifest.files, fileLoop.index + 1,
                                      fileLoop.installed + 1)
                  ELSE IF entry.hashes = NONE
                  THEN ModrinthLoop(manifest.files, fileLoop.index + 1,
                                    fileLoop.installed + 1, fileLoop.verified)
                  ELSE [fileLoop EXCEPT !.pc = "verify"])

\* await this.verifyHash(buffer, fileEntry.hashes, relPath) settles (line
\* 1368)
InstallFileVerified ==
    LET entry  == manifest.files[fileLoop.index + 1]
        thrown == verifyHash(entry.bytes, entry.hashes, fileLoop.label)
        seen   == Append(fileLoop.verified, fileLoop.index)
    IN  /\ fileLoop # NONE
        /\ fileLoop.pc = "verify"
        /\ dataWrites' = dataWrites
        /\ filesWritten' = filesWritten
        /\ FileLoopMoves(FileLoopJob,
              IF thrown # NONE
              THEN [fileLoop EXCEPT !.pc = "thrown", !.thrown = thrown, !.verified = seen]
              ELSE ModrinthLoop(manifest.files, fileLoop.index + 1,
                                fileLoop.installed + 1, seen))


\* The sequences over S of length max at most
SeqsUpTo(S, max) == UNION {[1..n -> S] : n \in 0..max}

\* fileEntry.path values of a Modrinth manifest: a path under mods, paths
\* with ".." segments, an absolute path, one with a backslash, ".", "/", and
\* an entry without a path
ModrinthPaths ==
    { STR_modsA,
      <<".", ".", "/", "x">>,
      <<"m", "o", "d", "s", "/", ".", ".", "/", ".", ".", "/", "x">>,
      <<"/", "e", "t", "c", "/", "x">>,
      <<".", ".", "\\", "x">>,
      <<".">>,
      <<"/">>,
      NULL }

\* fileEntry.hashes values (a Record<string, string>) for content whose
\* digests are Sha1Hex("jar") and Sha512Hex("jar"); the last two also hold
\* a digest under the name sha256
ModrinthHashes ==
    { [sha1 |-> <<"a", "9">>, sha512 |-> NULL, sha256 |-> NULL],
      [sha1 |-> <<"A", "9">>, sha512 |-> <<"5", "E", "F">>, sha256 |-> NULL],
      [sha1 |-> <<"0", "c">>, sha512 |-> NULL, sha256 |-> NULL],
      [sha1 |-> <<"0", "c">>, sha512 |-> <<"5", "e", "f">>, sha256 |-> NULL],
      [sha1 |-> NULL, sha512 |-> <<"7", "1", "d">>, sha256 |-> NULL],
      [sha1 |-> <<>>, sha512 |-> NULL, sha256 |-> NULL],
      [sha1 |-> <<"a", "9">>, sha512 |-> <<"5", "e", "f">>, sha256 |-> <<"b", "b">>],
      [sha1 |-> NULL, sha512 |-> NULL, sha256 |-> <<"b", "b">>] }

ModrinthEntry(p, unsupported, url, hashes) ==
    [path |-> p, unsupported |-> unsupported, url |-> url, hashes |-> hashes,
     bytes |-> "jar"]

ModrinthEntries ==
    {ModrinthEntry(p, FALSE, TRUE, NONE) : p \in ModrinthPaths}
        \cup {ModrinthEntry(STR_modsA, FALSE, TRUE, h) : h \in ModrinthHashes}
        \cup { ModrinthEntry(<<".", ".", "/", "x">>, TRUE, TRUE, NONE),
               ModrinthEntry(STR_modsA, FALSE, FALSE, NONE) }

\* The answers of the CurseForge API for a file: its fileName and whether
\* it has a downloadUrl, or no data
CurseforgeFileData ==
    {[downloadUrl |-> TRUE, fileName |-> n] :
        n \in { <<"a", ".", "j", "a", "r">>,
                <<".", ".", "/", "x">>,
                <<".", ".", "/", ".", ".", "/", "x">>,
                <<"/", "e", "t", "c", "/", "x">>,
                NULL }}
        \cup {[downloadUrl |-> FALSE, fileName |-> <<"a", ".", "j", "a", "r">>], NONE}

\* The entries of a CurseForge manifest, each with the answer the API gives
\* for it
CurseforgeEntries ==
    {[projectID |-> 1, fileID |-> 2, required |-> TRUE, fileData |-> d] :
        d \in CurseforgeFileData}
        \cup {[projectID |-> 1, fileID |-> 2, required |-> FALSE,
               fileData |-> [downloadUrl |-> TRUE,
                             fileName |-> <<".", ".", "/", ".", ".", "/", "x">>]]}

Manifests ==
    {[source |-> STR_modrinth, files |-> f] : f \in SeqsUpTo(ModrinthEntries, ManifestFiles)}
        \cup {[source |-> STR_curseforge, files |-> f] :
                 f \in SeqsUpTo(CurseforgeEntries, ManifestFiles)}

\* An install job whose run has applied the overrides and is about to call
\* install...Files with the manifest of its pack (lines 1119-1121, 1172-1174)
FilesInit ==
    \E m \in Manifests, applied \in BOOLEAN :
        LET jobId == generateJobId(m.source, 1)
            job   == [id |-> jobId, source |-> m.source, status |-> "installing",
                      startedAt |-> Timestamp, updatedAt |-> Timestamp,
                      progress |-> [phase |-> "Preparing filesystem for install"],
                      result |-> NONE, error |-> NULL]
        IN  /\ env = [DefaultEnv EXCEPT !.MAINTENANCE_MODE = STR_true]
            /\ KeyIdle
            /\ FsIdle
            /\ RestoresIdle
            /\ DownloadIdle
            /\ ListIdle
            /\ backupJobs = EmptyMap /\ backupTasks = EmptyMap /\ backupLog = EmptyMap
            /\ backupRuns = EmptyMap /\ backupCount = 0
            /\ modpackJobs = MapSet(EmptyMap, jobId, job)
            /\ modpackTasks = MapSet(EmptyMap, jobId,
                                     [pc |-> "files", tempDir |-> InstallTempDir(job),
                                      overridesApplied |-> applied, thrown |-> NONE,
                                      settled |-> [i \in 1..(Len(InstallStages) - 1) |->
                                                     [stage |-> InstallStages[i],
                                                      ok |-> TRUE]]])
            /\ modpackLog = MapSet(EmptyMap, jobId, <<"pending", "downloading", "installing">>)
            /\ tmpFiles = {InstallTempDir(job)}
            /\ unlinked = {}
            /\ response = NoResponse
            /\ manifest = m
            /\ fileLoop = NONE
            /\ dataWrites = {}
            /\ filesWritten = <<>>

FilesNext ==
    \/ InstallFilesBegin
    \/ CurseforgeFileFetched
    \/ InstallFileDownloaded
    \/ InstallFileVerified
    \/ InstallCleanedUp

FilesSpec == FilesInit /\ [][FilesNext]_vars

\* The entry declares a sha1 that is not the SHA-1 of the bytes downloaded
Sha1Mismatch(entry) ==
    /\ entry.hashes # NONE
    /\ entry.hashes.sha1 # NULL
    /\ entry.hashes.sha1 # <<>>
    /\ ToLowerCase(entry.hashes.sha1) # Sha1Hex(entry.bytes)

\* C18: when verifyHash has run on the bytes of a manifest entry whose sha1
\* does not match them, the file loop has thrown "SHA-1 mismatch for" the
\* path of the entry, the job has no result and is never completed, and
\* when its run has ended its status is failed and its error is that
\* message
C18_Sha1MismatchFailsJob ==
    (manifest # NONE /\ fileLoop # NONE) =>
        \A k \in DOMAIN fileLoop.verified :
            LET entry   == manifest.files[fileLoop.verified[k] + 1]
                job     == modpackJobs[FileLoopJob]
                task    == modpackTasks[FileLoopJob]
                message == <<"SHA-1 mismatch for ">> \o fileLoop.label
            IN  Sha1Mismatch(entry) =>
                    /\ k = Len(fileLoop.verified)
                    /\ fileLoop.pc = "thrown"
                    /\ fileLoop.thrown = Thrown(message)
                    /\ fileLoop.installed = fileLoop.verified[k]
                          - Cardinality({i \in 1..fileLoop.verified[k] :
                                            manifest.files[i].unsupported})
                    /\ job.result = NONE
                    /\ "completed" \notin {modpackLog[FileLoopJob][i] :
                                              i \in DOMAIN modpackLog[FileLoopJob]}
                    /\ task.pc = "done" =>
                          /\ job.status = "failed"
                          /\ job.error = message
                          /\ job.progress = [phase |-> "failed", note |-> message]

\* The run of a job has ended after the second entry of its manifest did
\* not match its sha1; the file of that entry had been written
C18_Witness ==
    /\ manifest # NONE
    /\ fileLoop # NONE
    /\ fileLoop.verified # <<>>
    /\ Sha1Mismatch(manifest.files[Last(fileLoop.verified) + 1])
    /\ Last(fileLoop.verified) = 1
    /\ fileLoop.installed = 1
    /\ modpackTasks[FileLoopJob].pc = "done"
    /\ modpackJobs[FileLoopJob].status = "failed"
    /\ fileLoop.destination \in dataWrites

\* C19 as stated: every destination the file loop of either provider has
\* written is /data or below it
C19_WritesUnderData ==
    \A destination \in dataWrites : UnderRoot(STR_data, destination)

\* C19 for Modrinth manifests, whose paths go through
\* sanitizeRelativePath: every destination written is /data or below it
C19_ModrinthWritesUnderData ==
    (manifest # NONE /\ manifest.source = STR_modrinth)
        => \A destination \in dataWrites : UnderRoot(STR_data, destination)


(***************************************************************************)
(* Polling: GET /backup-status?id= and GET /modpack/status/<id>, beside    *)
(* the background jobs.                                                    *)
(***************************************************************************)

\* The number of jobs started beside the polls
MaxPolledJobs == 1

\* A poll leaves everything but the response as it is
PollFrame ==
    UNCHANGED <<env, transferVars, keyVars, fsVars, backupJobs, backupTasks, backupLog,
                backupRuns, backupCount, modpackJobs, modpackTasks, modpackLog,
                tmpFiles, unlinked>>

\* The /backup-status route (lines 803-822); id is
\* url.searchParams.get("id"), NULL when the parameter is absent.  An
\* absent completedAt, result or error is sent as null.
handleBackupStatus(id) ==
    LET job == GetBackupJob(id)
    IN  /\ response' =
              IF id = NULL \/ id = <<>>
              THEN [kind |-> "backup-status", asked |-> id, status |-> 400,
                    body |-> [error |-> "Missing id"]]
              ELSE IF job = NONE
              THEN [kind |-> "backup-status", asked |-> id, status |-> 200,
                    body |-> [id |-> id, status |-> "not_found"]]
              ELSE [kind |-> "backup-status", asked |-> id, status |-> 200,
                    body |-> [id |-> job.id, directory |-> job.directory,
                              status |-> job.status, startedAt |-> job.startedAt,
                              completedAt |-> job.completedAt, result |-> job.result,
                              error |-> job.error]]
        /\ PollFrame

\* this.modpackJobs.get(id): the job, or undefined
GetModpackJob(id) == IF id \in DOMAIN modpackJobs THEN modpackJobs[id] ELSE NONE

\* The /modpack/status/ route (lines 790-796) and handleModpackStatus(id)
\* (lines 843-849); rest is the pathname after '/modpack/status/'
handleModpackStatus(rest) ==
    LET id  == Trim(rest)
        job == GetModpackJob(id)
    IN  /\ response' =
              IF id = <<>>
              THEN [kind |-> "modpack-status", asked |-> id, status |-> 400,
                    body |-> [error |-> "Missing job id"]]
              ELSE IF job = NONE
              THEN [kind |-> "modpack-status", asked |-> id, status |-> 404,
                    body |-> [id |-> id, status |-> "not_found"]]
              ELSE [kind |-> "modpack-status", asked |-> id, status |-> 200, body |-> job]
        /\ PollFrame

\* The ids polled: those of the start requests, one that is never started,
\* and none
BackupPollIds == {request.id : request \in BackupRequests} \cup {<<"b", "9">>, <<>>, NULL}

ModpackPollPaths ==
    {generateJobId(source, 1) : source \in ModpackSources}
        \cup {generateJobId(STR_modrinth, 1) \o <<" ">>, <<"x">>, <<" ">>}

GetBackupStatus == \E id \in BackupPollIds : handleBackupStatus(id)

GetModpackStatus == \E rest \in ModpackPollPaths : handleModpackStatus(rest)

\* The start requests, while fewer than MaxPolledJobs jobs were started
PollStartBackup == JobCount < MaxPolledJobs /\ StartBackup

PollStartInstall == JobCount < MaxPolledJobs /\ StartInstall

PollNext ==
    \/ PollStartBackup
    \/ BackupTarExited
    \/ BackupStatDone
    \/ BackupUploadDone
    \/ BackupTruncateDone
    \/ BackupUnlinkDone
    \/ PollStartInstall
    \/ InstallTempDirMade
    \/ InstallStageDone
    \/ InstallCleanedUp
    \/ GetBackupStatus
    \/ GetModpackStatus

PollSpec == Init /\ [][PollNext]_vars

\* The step is a poll
IsPoll == response'.kind \in {"backup-status", "modpack-status"}

\* C20: the answer to a poll for an id that is not in the registry is
\* {id, status: "not_found"}, with status 200 for a backup id and 404 for an
\* install id, never a job with status failed; the answer to a poll for an
\* id in the registry is that job as it is now; a poll changes no job
\* record
C20_PollReportsRegistry ==
    /\ [](response.kind = "backup-status" /\ response.status # 400
            => /\ response.status = 200
               /\ IF response.asked \in DOMAIN backupJobs
                  THEN LET job == backupJobs[response.asked]
                       IN  response.body =
                               [id |-> job.id, directory |-> job.directory,
                                status |-> job.status, startedAt |-> job.startedAt,
                                completedAt |-> job.completedAt, result |-> job.result,
                                error |-> job.error]
                  ELSE response.body = [id |-> response.asked, status |-> "not_found"])
    /\ [](response.kind = "modpack-status" /\ response.status # 400
            => IF response.asked \in DOMAIN modpackJobs
               THEN response.status = 200 /\ response.body = modpackJobs[response.asked]
               ELSE /\ response.status = 404
                    /\ response.body = [id |-> response.asked, status |-> "not_found"])
    /\ [][IsPoll => UNCHANGED <<backupJobs, backupTasks, backupLog, backupRuns,
                                backupCount, modpackJobs, modpackTasks, modpackLog>>]_vars

\* A poll for an id that was never started is answered not_found while the
\* registry holds a failed job
C20_Witness ==
    /\ response.kind = "backup-status"
    /\ response.asked \notin DOMAIN backupJobs
    /\ response.body = [id |-> response.asked, status |-> "not_found"]
    /\ \E id \in DOMAIN backupJobs : backupJobs[id].status = "failed"


\* The restore runs that are between their size probe and their return
RestoresInFlight == {id \in DOMAIN restores : restores[id].pc \notin {"head", "done"}}

\* C21 as stated, for restores: two restores that are in flight at the same
\* time have different temp file paths
C21_DistinctTempFiles ==
    \A id1, id2 \in RestoresInFlight :
        id1 # id2 => restores[id1].tempFile # restores[id2].tempFile

\* The calls a run has made contain call
HasCalled(run, call) == \E i \in DOMAIN run.calls : run.calls[i] = call

RestoreSucceeded(run) == run.reply.status = 200 /\ run.reply.body.success

ExtractionFailed(run) ==
    run.reply = RestoreFailed(<<"tar extraction failed with exit code ", "2", ": ", "stderr">>)

\* C28: a restore whose downloaded file, once its size was read, has
\* another size than the probed one is not failed for it: no answer names the sizes, the restore goes on
\* to the creation of the parent directory and the extraction, and once
\* tar was started the answer is success when tar exits with 0 and the
\* extraction error otherwise
C28_SizeMismatchNotFatal ==
    /\ [](\A id \in DOMAIN restores :
            LET run == restores[id]
            IN  (HasCalled(run, "stat") /\ run.downloadedSize # run.fileSize
                   /\ run.pc = "done")
                    => /\ run.reply # RestoreFailed(<<"File size mismatch">>)
                       /\ HasCalled(run, "tar") => RestoreSucceeded(run) \/ ExtractionFailed(run)
                       /\ ~HasCalled(run, "tar")
                             => run.reply = RestoreFailed(<<"Failed to create directory ",
                                                            "parentDir", ": ", "stderr">>))
    /\ [][\A id \in DOMAIN restores :
            (restores[id].pc = "stat" /\ HasCalled(restores'[id], "stat")
               /\ restores'[id].downloadedSize # restores'[id].fileSize)
                => restores'[id].pc = "mkdir"]_vars

\* A restore whose sizes differed has been extracted and answered with
\* success
C28_Witness ==
    \E id \in DOMAIN restores :
        /\ restores[id].pc = "done"
        /\ restores[id].downloadedSize # restores[id].fileSize
        /\ HasCalled(restores[id], "tar")
        /\ RestoreSucceeded(restores[id])


\* C23 as stated: once downloadLargeFile has returned or thrown no part file
\* of the download is on disk
C23_NoPartFileAfterDownload ==
    (dl # NONE /\ dl.pc \in {"returned", "thrown"})
        => \A p \in DOMAIN dlFiles : dlFiles[p] = NONE

\* Part p holds data shorter than its range
HoldsShortData(p) ==
    LET task == DownloadTask(p - 1, dl.fileSize)
    IN  /\ dlParts[p].data # NONE
        /\ ByteLength(dlParts[p].data) # task.end - task.start + 1

\* C26 (received is the body the last response of a part came with,
\* whatever its length): the attempt count of a part goes up only when the delay after a
\* failed attempt is over, and a part comes to that delay only from a fetch
\* that was rejected or answered with a non-2xx status or from a body that
\* could not be read, never with data; a body of another length than the
\* range is taken as the data of the part and written, in the same attempt
C26_LengthMismatchNotRetried ==
    [][(dl # NONE /\ dl' # NONE /\ DOMAIN dlParts' = DOMAIN dlParts) =>
         \A p \in DOMAIN dlParts :
            /\ dlParts'[p].attempt # dlParts[p].attempt
                  => \/ dlParts[p].pc = "delay" /\ dlParts'[p].attempt = dlParts[p].attempt + 1
                     \/ dlParts[p].pc = "none" /\ dlParts'[p].attempt = 1
            /\ (dlParts'[p].pc = "delay" /\ dlParts[p].pc # "delay")
                  => /\ dlParts[p].pc \in {"fetch", "body"}
                     /\ dlParts'[p].data = NONE
                     /\ dlFaults' = dlFaults + 1
            /\ (dlParts[p].pc = "body" /\ dlParts'[p].received # NONE)
                  => /\ dlParts'[p].pc = "write"
                     /\ dlParts'[p].data = dlParts'[p].received
                     /\ dlParts'[p].attempt = dlParts[p].attempt]_vars

\* A download has returned with a part whose data was a byte short, taken
\* on its first attempt
C26_Witness ==
    /\ dl # NONE
    /\ dl.pc = "returned"
    /\ \E p \in DOMAIN dlParts : HoldsShortData(p) /\ dlParts[p].attempt = 1

\* C27: the destination is opened only when every part has been downloaded
\* and written, and never when a part has failed; what has been appended to
\* it is the data of parts 1, 2, ... in this order; the file of a part is
\* removed only after its data was appended
C27_ReconstructionInOrder ==
    dl # NONE =>
        /\ dl.opened <=> dl.pc \in {"recon-read", "recon-unlink", "end", "returned"}
                           \/ (dl.pc = "thrown"
                                /\ \A p \in DOMAIN dlParts : dlParts[p].pc = "done")
        /\ dl.opened => \A p \in DOMAIN dlParts : dlParts[p].pc = "done"
        /\ (\E p \in DOMAIN dlParts : dlParts[p].pc = "failed")
              => ~dl.opened /\ dlTarget = <<>>
        /\ ~dl.opened => dlTarget = <<>>
        /\ Len(dlTarget) <= dl.numParts
        /\ \A k \in DOMAIN dlTarget : dlTarget[k] = dlParts[k].data
        /\ \A p \in DOMAIN dlParts :
              (dlParts[p].pc = "done" /\ dlFiles[p] = NONE) => p <= Len(dlTarget)

\* A part of the second batch has been appended and its file is still
\* there, the files of the parts appended before are removed
C27_Witness ==
    /\ dl # NONE
    /\ dl.opened
    /\ dl.pc = "recon-unlink"
    /\ Len(dlTarget) > MAX_CONCURRENT_DOWNLOADS
    /\ dlFiles[Len(dlTarget)] # NONE
    /\ \A p \in 1..(Len(dlTarget) - 1) : dlFiles[p] = NONE


(***************************************************************************)
(* The parts of downloadLargeFile for sizes around the multiples of the    *)
(* chunk size.                                                             *)
(***************************************************************************)

\* fileSize: one byte, and one byte less than, exactly and one byte more
\* than one, two and three chunks
PartitionSizes ==
    { 1, DOWNLOAD_CHUNK_SIZE - 1, DOWNLOAD_CHUNK_SIZE, DOWNLOAD_CHUNK_SIZE + 1,
      2 * DOWNLOAD_CHUNK_SIZE, 2 * DOWNLOAD_CHUNK_SIZE + 1, 3 * DOWNLOAD_CHUNK_SIZE - 1 }

PlanDownload == \E fileSize \in PartitionSizes : downloadLargeFile(fileSize)

PartitionNext ==
    \/ PlanDownload
    \/ PartFetched
    \/ PartBodyRead
    \/ PartDelayed
    \/ PartWritten
    \/ ReconPartRead
    \/ ReconPartUnlinked
    \/ TargetEnded

PartitionSpec == DownloadInit /\ [][PartitionNext]_vars

DigestHex(algorithm, bytes) ==
    CASE algorithm = "sha1"   -> Sha1Hex(bytes)
      [] algorithm = "sha512" -> Sha512Hex(bytes)
      [] algorithm = "sha256" -> IF bytes = "jar" THEN <<"3", "4">> ELSE <<"b", "b">>

\* The entry supplies, under some algorithm name, a digest that is not the
\* digest of the bytes downloaded
AnyHashMismatch(entry) ==
    /\ entry.hashes # NONE
    /\ \E algorithm \in DOMAIN entry.hashes :
          /\ entry.hashes[algorithm] # NULL
          /\ entry.hashes[algorithm] # <<>>
          /\ ToLowerCase(entry.hashes[algorithm]) # DigestHex(algorithm, entry.bytes)

\* C30 as stated: when verifyHash has run on the bytes of a manifest entry
\* one of whose supplied hashes, under whatever algorithm name, does not
\* match them, the file loop has thrown there, and the job has no result
\* and is never completed
C30_EveryHashVerified ==
    (manifest # NONE /\ fileLoop # NONE) =>
        \A k \in DOMAIN fileLoop.verified :
            AnyHashMismatch(manifest.files[fileLoop.verified[k] + 1]) =>
                /\ k = Len(fileLoop.verified)
                /\ fileLoop.pc = "thrown"
                /\ modpackJobs[FileLoopJob].result = NONE
                /\ modpackJobs[FileLoopJob].status # "completed"

\* C30 for the two names verifyHash reads: an entry whose sha1 or sha512
\* does not match the bytes stops the file loop with a throw, and the job
\* has no result and is never completed
C30_Sha1AndSha512Verified ==
    (manifest # NONE /\ fileLoop # NONE) =>
        \A k \in DOMAIN fileLoop.verified :
            LET entry == manifest.files[fileLoop.verified[k] + 1]
            IN  (/\ entry.hashes # NONE
                 /\ \E algorithm \in {"sha1", "sha512"} :
                       /\ entry.hashes[algorithm] # NULL
                       /\ entry.hashes[algorithm] # <<>>
                       /\ ToLowerCase(entry.hashes[algorithm])
                             # DigestHex(algorithm, entry.bytes))
                =>  /\ k = Len(fileLoop.verified)
                    /\ fileLoop.pc = "thrown"
                    /\ modpackJobs[FileLoopJob].result = NONE
                    /\ modpackJobs[FileLoopJob].status # "completed"


(***************************************************************************)
(* The temp directory of an install job.  Every await of a run is on the   *)
(* exit of a child process or on a fetch, and the event loop resumes the   *)
(* run when it settles: each continuation that is enabled is taken.        *)
(***************************************************************************)

InstallLiveSpec ==
    /\ InstallSpec
    /\ WF_vars(InstallTempDirMade)
    /\ WF_vars(InstallStageDone)
    /\ WF_vars(InstallCleanedUp)

\* The ids of the install jobs of InstallSpec
InstallIds == {generateJobId(source, n) : source \in ModpackSources, n \in 1..MaxInstalls}

\* The run of install job id is inside its try block or its finally block
InTryBlock(id) ==
    /\ id \in DOMAIN modpackTasks
    /\ modpackTasks[id].pc \notin {"mkdir", "done"}

\* The run of install job id has ended after it had entered its try block
LeftTryBlock(id) ==
    /\ id \in DOMAIN modpackTasks
    /\ modpackTasks[id].pc = "done"
    /\ modpackTasks[id].thrown # StageError(modpackJobs[id].source, "mkdir")

\* C22: a run of an install job that has entered its try block ends, and
\* when it has ended, with the job completed or failed, rm -rf has been run
\* on its temp directory, which is gone unless rm failed; the temp directory
\* is below /tmp, and removePath runs rm on neither / nor /data
C22_TempDirRemoved ==
    /\ \A id \in InstallIds : InTryBlock(id) ~> LeftTryBlock(id)
    /\ [](\A id \in InstallIds :
            LeftTryBlock(id) =>
                /\ modpackJobs[id].status \in {"completed", "failed"}
                /\ modpackTasks[id].tempDir \in unlinked)
    /\ [](/\ removePathSkips(<<"/">>)
          /\ removePathSkips(STR_data)
          /\ \A targetPath \in unlinked :
                /\ targetPath \notin {<<"/">>, STR_data}
                /\ SubSeq(targetPath, 1, 5) = <<"/", "t", "m", "p", "/">>)
    /\ [][\A id \in InstallIds :
            (InTryBlock(id) /\ LeftTryBlock(id)')
                => \/ tmpFiles' = tmpFiles \ {modpackTasks[id].tempDir}
                   \/ tmpFiles' = tmpFiles]_vars

\* The run of a CurseForge install job has ended with the job failed after
\* its temp directory had been made, and the directory is gone
C22_Witness ==
    \E id \in DOMAIN modpackTasks :
        /\ LeftTryBlock(id)
        /\ modpackJobs[id].source = STR_curseforge
        /\ modpackJobs[id].status = "failed"
        /\ modpackTasks[id].tempDir \in unlinked
        /\ modpackTasks[id].tempDir \notin tmpFiles


(***************************************************************************)
(* GET <directory>?list_backups=true: handleListBackups (lines 1992-2056)  *)
(***************************************************************************)

\* The number of objects in the bucket
MaxObjects == 3

STR_targz == <<".", "t", "a", "r", ".", "g", "z">>

NonEmpty(s) == s # <<>>

\* directory.split("/").filter(Boolean).pop() || "backup" (line 2006)
ListDirName(directory) ==
    LET parts == SelectSeq(Split(directory, "/"), NonEmpty)
    IN  IF parts = <<>> THEN <<"b", "a", "c", "k", "u", "p">> ELSE Last(parts)

\* new Date(timestamp).getTime() of the lastModified values of ListedObjects
DateGetTime(timestamp) ==
    CASE timestamp = "1970-01-02T00:00:00.000Z" -> 86400000
      [] timestamp = "1970-01-03T00:00:00.000Z" -> 172800000
      [] timestamp = "1970-01-04T00:00:00.000Z" -> 259200000

\* A comparator that puts the oldest first
CompareOldestFirst(a, b) ==
    IF a.timestamp = "unknown" \/ b.timestamp = "unknown" THEN 0
    ELSE DateGetTime(a.timestamp) - DateGetTime(b.timestamp)

\* The comparator of backups.sort (lines 2033-2036)
CompareBackups(a, b) ==
    IF a.timestamp = "unknown" \/ b.timestamp = "unknown" THEN 0
    ELSE DateGetTime(b.timestamp) - DateGetTime(a.timestamp)

\* The comparator orders the items consistently: it calls no two items
\* equal to a third that it tells apart
ConsistentComparator(items) ==
    \A i, j, k \in DOMAIN items :
        (CompareBackups(items[i], items[j]) = 0 /\ CompareBackups(items[j], items[k]) = 0)
            => CompareBackups(items[i], items[k]) = 0

\* x put behind the items of sorted that do not come after it
RECURSIVE InsertSorted(_, _)
InsertSorted(sorted, x) ==
    IF sorted = <<>> THEN <<x>>
    ELSE IF CompareBackups(Last(sorted), x) > 0
    THEN Append(InsertSorted(SubSeq(sorted, 1, Len(sorted) - 1), x), Last(sorted))
    ELSE Append(sorted, x)

\* Array.prototype.sort is stable
RECURSIVE StableSort(_)
StableSort(items) ==
    IF items = <<>> THEN <<>>
    ELSE InsertSorted(StableSort(SubSeq(items, 1, Len(items) - 1)), Last(items))

Reorderings(items) ==
    { [i \in DOMAIN items |-> items[f[i]]] :
        f \in {g \in [DOMAIN items -> DOMAIN items] : \A i, j \in DOMAIN items :
                                                        g[i] = g[j] => i = j} }

\* backups.sort(comparator) (lines 2033-2036): the stable order when the
\* comparator is consistent, an order of the implementation's choice
\* otherwise
SortOutcomes(items) ==
    IF ConsistentComparator(items) THEN {StableSort(items)} ELSE Reorderings(items)

\* The item pushed for an object listed (lines 2026-2030); an object with no
\* lastModified has ""
BackupListItem(item) ==
    [path |-> item.key, size |-> item.size,
     timestamp |-> IF item.lastModified # "" THEN item.lastModified ELSE "unknown"]

\* The items of the objects whose key ends with `_${dirName}.tar.gz` (lines
\* 2024-2031)
RECURSIVE ListedBackups(_, _)
ListedBackups(contents, dirName) ==
    IF contents = <<>> THEN <<>>
    ELSE LET rest == ListedBackups(Tail(contents), dirName)
         IN  IF EndsWith(Head(contents).key, <<"_">> \o dirName \o STR_targz)
             THEN <<BackupListItem(Head(contents))>> \o rest
             ELSE rest

UnderBackups(object) == StartsWith(object.key, STR_backups)

\* handleListBackups(pathname): createS3Client throws without credentials;
\* S3Client.list({prefix: "backups/"}) makes one ListObjectsV2 request,
\* which rejects or answers with some or all of the keys under the prefix,
\* in key order, and isTruncated when it is not all; every throw is
\* answered 500.  isTruncated of the answer is kept beside the response
handleListBackups(pathname) ==
    LET directory == IF StartsWith(pathname, <<"/">>) THEN pathname ELSE <<"/">> \o pathname
        dirName   == ListDirName(directory)
        under     == SelectSeq(bucket, UnderBackups)
        Failed(message) ==
            [kind |-> "list-backups", status |-> 500, directory |-> directory,
             error |-> <<"List backups failed: ", message>>]
    IN  /\ \/ /\ ~env.AWS_CREDENTIALS
              /\ response' = Failed("Missing AWS credentials in environment")
           \/ /\ env.AWS_CREDENTIALS
              /\ response' = Failed("Unable to connect")
           \/ /\ env.AWS_CREDENTIALS
              /\ \E count \in 0..Len(under) :
                    /\ count = 0 => under = <<>>
                    /\ \E sorted \in SortOutcomes(ListedBackups(SubSeq(under, 1, count),
                                                                dirName)) :
                          response' = [kind |-> "list-backups", status |-> 200,
                                       success |-> TRUE, directory |-> directory,
                                       backups |-> sorted,
                                       isTruncated |-> count < Len(under)]
        /\ UNCHANGED <<env, keyVars, fsVars, transferVars, backupJobs, backupTasks,
                       backupLog, backupRuns, backupCount, modpackJobs, modpackTasks,
                       modpackLog, tmpFiles, unlinked>>

\* `backups/${reversePart}_${datePart}_${dirName}.tar.gz` (line 61)
BackupObjectKey(reversePart, datePart, dirName) ==
    STR_backups \o <<reversePart, "_", datePart, "_">> \o dirName \o STR_targz

\* Objects of the bucket in key order: backups of world, my_world and
\* nether, two of them modified at the same time, one with no lastModified,
\* one key without the separator and one outside backups/
ListedObjects ==
    << [key |-> BackupObjectKey("1", "d", <<"w", "o", "r", "l", "d">>), size |-> 7,
        lastModified |-> "1970-01-03T00:00:00.000Z"],
       [key |-> BackupObjectKey("2", "c", <<"w", "o", "r", "l", "d">>), size |-> 0,
        lastModified |-> "1970-01-03T00:00:00.000Z"],
       [key |-> BackupObjectKey("3", "c", <<"m", "y", "_", "w", "o", "r", "l", "d">>),
        size |-> 7, lastModified |-> "1970-01-02T00:00:00.000Z"],
       [key |-> BackupObjectKey("4", "b", <<"n", "e", "t", "h", "e", "r">>), size |-> 7,
        lastModified |-> "1970-01-04T00:00:00.000Z"],
       [key |-> BackupObjectKey("5", "b", <<"w", "o", "r", "l", "d">>), size |-> 7,
        lastModified |-> "1970-01-04T00:00:00.000Z"],
       [key |-> BackupObjectKey("6", "a", <<"w", "o", "r", "l", "d">>), size |-> 7,
        lastModified |-> ""],
       [key |-> STR_backups \o <<"w", "o", "r", "l", "d">> \o STR_targz, size |-> 7,
        lastModified |-> "1970-01-04T00:00:00.000Z"],
       [key |-> <<"d", "y", "n", "m", "a", "p", "/", "7", "_", "a", "_",
                  "w", "o", "r", "l", "d">> \o STR_targz, size |-> 7,
        lastModified |-> "1970-01-04T00:00:00.000Z"] >>

\* The objects of ListedObjects at the positions chosen, in key order
RECURSIVE ObjectsAt(_, _)
ObjectsAt(positions, from) ==
    IF from > Len(ListedObjects) THEN <<>>
    ELSE (IF from \in positions THEN <<ListedObjects[from]>> ELSE <<>>)
             \o ObjectsAt(positions, from + 1)

Buckets ==
    {ObjectsAt(positions, 1) :
        positions \in {P \in SUBSET DOMAIN ListedObjects : Cardinality(P) <= MaxObjects}}

\* url.pathname of the list requests
ListPathnames ==
    { <<"/", "d", "a", "t", "a", "/", "w", "o", "r", "l", "d">>,
      <<"/", "w", "o", "r", "l", "d", "/">>,
      <<"/", "d", "a", "t", "a", "/", "m", "y", "_", "w", "o", "r", "l", "d">>,
      <<"/">> }

GetListBackups == \E pathname \in ListPathnames : handleListBackups(pathname)

ListInit ==
    /\ env \in {DefaultEnv, [DefaultEnv EXCEPT !.AWS_CREDENTIALS = FALSE]}
    /\ KeyIdle
    /\ FsIdle
    /\ JobsIdle
    /\ RestoresIdle
    /\ DownloadIdle
    /\ FilesIdle
    /\ bucket \in Buckets

ListSpec == ListInit /\ [][GetListBackups]_vars

\* The keys of the bucket under backups/ that end with
\* `_${dirName}.tar.gz`, for the directory of the list request answered
MatchingKeys ==
    {bucket[i].key : i \in {j \in DOMAIN bucket :
        /\ UnderBackups(bucket[j])
        /\ EndsWith(bucket[j].key,
                    <<"_">> \o ListDirName(response.directory) \o STR_targz)}}

\* The list answered holds these keys, each once, and is newest first when
\* every timestamp is known
ListsMatchingNewestFirst ==
    LET backups == response.backups
    IN  /\ {backups[i].path : i \in DOMAIN backups} = MatchingKeys
        /\ Len(backups) = Cardinality(MatchingKeys)
        /\ (\A i \in DOMAIN backups : backups[i].timestamp # "unknown")
              => \A i, j \in DOMAIN backups :
                    i < j => DateGetTime(backups[i].timestamp)
                                >= DateGetTime(backups[j].timestamp)

\* C29 as stated: a list request answered 200 returns exactly the objects
\* under backups/ whose key ends with _<basename of the directory>.tar.gz,
\* and when every item has a known timestamp the list is sorted by
\* timestamp, newest first
C29_ListsMatchingBackups ==
    (response.kind = "list-backups" /\ response.status = 200) => ListsMatchingNewestFirst

\* C29 for a listing that S3 answered whole: the same, when the one list
\* request made was not truncated
C29_WholeListingFilteredAndSorted ==
    (response.kind = "list-backups" /\ response.status = 200 /\ ~response.isTruncated)
        => ListsMatchingNewestFirst


\* The handleRestore runs that have not returned
RestoresRunning == {id \in DOMAIN restores : restores[id].pc # "done"}

\* C35: activeRestores is the number of handleRestore runs that have not
\* returned, in every state: it is never negative, it is 0 when no restore
\* is in flight, a request that is still running after its step has added
\* one to it, and a run that returns, with whatever response, takes one off
C35_ActiveRestoresCountsInFlight ==
    /\ [](/\ activeRestores = Cardinality(RestoresRunning)
          /\ activeRestores >= 0
          /\ RestoresRunning = {} => activeRestores = 0)
    /\ [][/\ \A id \in DOMAIN restores' \ DOMAIN restores :
                activeRestores' = IF restores'[id].pc = "done" THEN activeRestores
                                  ELSE activeRestores + 1
          /\ \A id \in RestoresRunning :
                restores'[id].pc = "done" => activeRestores' = activeRestores - 1]_vars

\* One restore has failed after its probe and one is waiting for tar: the
\* counter is 1
C35_Witness ==
    /\ activeRestores = 1
    /\ \E id \in DOMAIN restores : restores[id].pc = "tar"
    /\ \E id \in DOMAIN restores : restores[id].pc = "done" /\ restores[id].reply.status = 500
                                      /\ restores[id].calls # <<>>


\* The install jobs that are pending, downloading or installing
ActiveInstalls ==
    {id \in DOMAIN modpackJobs :
        modpackJobs[id].status \in {"pending", "downloading", "installing"}}

\* C33 as stated: at any time at most one install job is pending,
\* downloading or installing, and no two runs are past the reset of the
\* mods directory at the same time
C33_OneActiveInstall ==
    /\ Cardinality(ActiveInstalls) <= 1
    /\ Cardinality({id \in DOMAIN modpackTasks :
                       modpackTasks[id].pc \in {"reset", "overrides", "files"}}) <= 1


\* The positions in the settled awaits of a run at which the stage settled
SettledAt(task, stage) == {i \in DOMAIN task.settled : task.settled[i].stage = stage}

\* C31: in an install job resetModsDirectory is awaited only with
\* maintenance mode on and after the pack was resolved, downloaded and
\* extracted and its manifest loaded, each with success; the overrides are
\* applied and the manifest files installed only after the reset has
\* succeeded; a run that failed before or at the loading of the manifest
\* has not called the reset, the overrides or the file loop
C31_ResetAfterManifest ==
    \A id \in DOMAIN modpackTasks :
        LET task == modpackTasks[id]
            Before(i, stage) ==
                \E j \in SettledAt(task, stage) : j < i /\ task.settled[j].ok
            FailedEarly ==
                /\ task.pc = "done"
                /\ modpackJobs[id].status = "failed"
                /\ \E stage \in {"mkdir", "resolve", "download", "extract", "manifest"} :
                       task.thrown = StageError(modpackJobs[id].source, stage)
        IN  /\ (task.pc \in {"reset", "overrides", "files"} \/ SettledAt(task, "reset") # {})
                  => /\ isMaintenanceModeEnabled
                     /\ \A stage \in {"resolve", "download", "extract", "manifest"} :
                           Before(Len(task.settled) + 1, stage)
            /\ \A i \in SettledAt(task, "reset") :
                  \A stage \in {"resolve", "download", "extract", "manifest"} :
                      Before(i, stage)
            /\ \A i \in SettledAt(task, "overrides") \cup SettledAt(task, "files") :
                  Before(i, "reset")
            /\ task.pc \in {"overrides", "files"} => Before(Len(task.settled) + 1, "reset")
            /\ FailedEarly =>
                  /\ SettledAt(task, "reset") = {}
                  /\ SettledAt(task, "overrides") = {}
                  /\ SettledAt(task, "files") = {}

\* A CurseForge job is installing its files: its reset has settled, after
\* the loading of its manifest and before the overrides
C31_Witness ==
    \E id \in DOMAIN modpackTasks :
        /\ modpackJobs[id].source = STR_curseforge
        /\ modpackTasks[id].pc = "files"
        /\ \E i \in SettledAt(modpackTasks[id], "reset") :
              /\ modpackTasks[id].settled[i].ok
              /\ modpackTasks[id].settled[i - 1].stage = "manifest"
              /\ modpackTasks[id].settled[i + 1].stage = "overrides"


\* The entry is marked unsupported on the server (Modrinth) or not required
\* (CurseForge)
MarkedSkipped(entry) ==
    IF manifest.source = STR_modrinth THEN entry.unsupported ELSE ~entry.required

\* The indices from index up to the last of the manifest whose entries are
\* not marked skipped, in order
RECURSIVE UnskippedFrom(_)
UnskippedFrom(index) ==
    IF index >= Len(manifest.files) THEN <<>>
    ELSE (IF MarkedSkipped(manifest.files[index + 1]) THEN <<>> ELSE <<index>>)
             \o UnskippedFrom(index + 1)

\* C32: the file loop writes no entry that is marked server-unsupported or
\* not required, and it writes the other entries once each in manifest
\* order; installed never counts more than was written; when the loop has
\* returned every entry not marked has been written and the job is
\* completed with result.filesInstalled the number of entries written
C32_SkippedNotWrittenOthersCounted ==
    (manifest # NONE) =>
        /\ \A k \in DOMAIN filesWritten :
              /\ ~MarkedSkipped(manifest.files[filesWritten[k] + 1])
              /\ filesWritten[k] = UnskippedFrom(0)[k]
        /\ Len(filesWritten) <= Len(UnskippedFrom(0))
        /\ fileLoop # NONE =>
              /\ fileLoop.installed <= Len(filesWritten)
              /\ fileLoop.pc = "returned" =>
                    /\ filesWritten = UnskippedFrom(0)
                    /\ modpackJobs[FileLoopJob].status = "completed"
                    /\ modpackJobs[FileLoopJob].result.filesInstalled = Len(filesWritten)
        /\ modpackJobs[FileLoopJob].status = "completed" =>
              modpackJobs[FileLoopJob].result.filesInstalled = Len(UnskippedFrom(0))

\* A CurseForge job is completed with one file installed of a manifest of
\* two entries, the other of which is not required
C32_Witness ==
    /\ manifest # NONE
    /\ manifest.source = STR_curseforge
    /\ Len(manifest.files) = 2
    /\ ~manifest.files[1].required
    /\ fileLoop # NONE
    /\ fileLoop.pc = "returned"
    /\ filesWritten = <<1>>
    /\ modpackJobs[FileLoopJob].result.filesInstalled = 1


\* C37 as stated: when the run of an install job has ended failed because
\* verifyHash threw for an entry, the bytes downloaded for that entry are
\* not at its destination: the destination was never written, or it has
\* been removed since
C37_UnverifiedFileRemoved ==
    (/\ manifest # NONE
     /\ fileLoop # NONE
     /\ fileLoop.pc = "thrown"
     /\ fileLoop.verified # <<>>
     /\ fileLoop.thrown = verifyHash(manifest.files[Last(fileLoop.verified) + 1].bytes,
                                    manifest.files[Last(fileLoop.verified) + 1].hashes,
                                    fileLoop.label)
     /\ modpackTasks[FileLoopJob].pc = "done"
     /\ modpackJobs[FileLoopJob].status = "failed")
        => \/ fileLoop.destination \notin dataWrites
           \/ fileLoop.destination \in unlinked


\* The download has thrown the error of a part that used all its attempts
ThrownByExhaustion ==
    /\ dl # NONE
    /\ dl.pc = "thrown"
    /\ dl.error.attempts = MAX_RETRIES
    /\ \E p \in DOMAIN dlParts : Exhausted(p)

\* C38 as stated: once downloadLargeFile has thrown because a part used
\* all its attempts, no part of the download is in flight, and no step
\* after the throw fetches for a part or writes a part file
C38_NothingInFlightAfterThrow ==
    /\ [](ThrownByExhaustion => InFlight = {})
    /\ [][ThrownByExhaustion => (dlParts' = dlParts /\ dlFiles' = dlFiles)]_vars


\* C40 as stated: when a restore request has returned, with whatever
\* response, and no other restore is running, its temp archive is not on
\* disk
C40_TempArchiveGoneOnReturn ==
    RestoresRunning = {} =>
        \A id \in DOMAIN restores :
            restores[id].tempFile # NULL => restores[id].tempFile \notin tmpFiles


\* C36: tar is started for a restore only after its download has completed
\* and the size of the file was read: the key was valid, the probe was
\* answered 2xx, and the single fetch or the chunked download came before;
\* a restore answered 400 or 404, or 500 for anything but the exit code of
\* tar, has not started tar
C36_ExtractOnlyAfterDownload ==
    \A id \in DOMAIN restores :
        LET run == restores[id]
        IN  /\ HasCalled(run, "tar") =>
                  /\ ~KeyOutsideNamespace(run.backupFilename)
                  /\ run.probe # NONE
                  /\ run.probe.kind = "response"
                  /\ run.probe.status >= 200
                  /\ run.probe.status <= 299
                  /\ Len(run.calls) = 4
                  /\ run.calls[1] = "HEAD"
                  /\ run.calls[2] \in {"GET", "downloadLargeFile"}
                  /\ run.calls[3] = "stat"
                  /\ run.calls[4] = "tar"
                  /\ run.tempFile # NULL
            /\ (run.pc = "done" /\ ~RestoreSucceeded(run) /\ ~ExtractionFailed(run))
                  => ~HasCalled(run, "tar")
            /\ (run.pc = "done" /\ run.reply.status \in {400, 404})
                  => ~HasCalled(run, "tar")

\* One restore has failed in its chunked download, without tar, and one
\* has started tar after its single fetch
C36_Witness ==
    /\ \E id \in DOMAIN restores :
          /\ restores[id].pc = "done"
          /\ restores[id].reply.status = 500
          /\ restores[id].calls = <<"HEAD", "downloadLargeFile">>
    /\ \E id \in DOMAIN restores :
          /\ restores[id].pc = "tar"
          /\ restores[id].calls = <<"HEAD", "GET", "stat", "tar">>


(***************************************************************************)
(* The object keys of the backups of two directories (lines 1006-1009)     *)
(***************************************************************************)

\* The directories of two backup requests
KeyDirectories ==
    { <<"/", "d", "a", "t", "a", "/", "w", "o", "r", "l", "d">>,
      <<"/", "s", "r", "v", "/", "w", "o", "r", "l", "d">>,
      <<"/", "d", "a", "t", "a", "/", "a", "_", "b">>,
      <<"/", "d", "a", "t", "a", "/", "b", "a", "c", "k", "u", "p">>,
      <<"/">> }

DirectoryKeyInit ==
    /\ env = DefaultEnv
    /\ keyIn \in [directory1 : KeyDirectories, directory2 : KeyDirectories,
                  at1 : KeyDates, at2 : KeyDates]
    /\ keyOut = <<>>
    /\ FsIdle
    /\ JobsIdle
    /\ TransferIdle

\* const dirName = directory.split("/").filter(Boolean).pop() || "backup";
\* const backupFilename = generateBackupKey(dirName, now), for each of the
\* two backups
GenerateDirectoryKeys ==
    /\ keyOut = <<>>
    /\ keyOut' = << generateBackupKey(ListDirName(keyIn.directory1), keyIn.at1),
                    generateBackupKey(ListDirName(keyIn.directory2), keyIn.at2) >>
    /\ UNCHANGED <<env, transferVars, keyIn, fsVars, jobVars>>

DirectoryKeySpec == DirectoryKeyInit /\ [][GenerateDirectoryKeys]_vars

\* C34 as stated: the keys generated for the backups of two distinct
\* directory paths are never equal
C34_DistinctDirectoriesDistinctKeys ==
    (keyOut # <<>> /\ keyIn.directory1 # keyIn.directory2) => keyOut[1] # keyOut[2]

\* C34 for directories whose last segments differ: their keys differ,
\* whatever the two times
C34_DistinctBasenamesDistinctKeys ==
    (keyOut # <<>> /\ ListDirName(keyIn.directory1) # ListDirName(keyIn.directory2))
        => keyOut[1] # keyOut[2]


\* The key is a key of generateBackupKey for dirName, with the reverse part
\* and the date part it has
GeneratedFor(key, dirName) ==
    /\ Len(key) = Len(STR_backups) + 4 + Len(dirName) + Len(STR_targz)
    /\ key = BackupObjectKey(key[Len(STR_backups) + 1], key[Len(STR_backups) + 3], dirName)

\* C39 as stated: every key a list request returns was generated for the
\* last segment of the directory requested, and for no other directory name
C39_ListsOnlyOwnBackups ==
    (response.kind = "list-backups" /\ response.status = 200) =>
        \A i \in DOMAIN response.backups :
            GeneratedFor(response.backups[i].path, ListDirName(response.directory))

====
